---- MODULE Spec2Model ----
(***************************************************************************)
(* Whisper transcription service (whisper-service/app): the hallucination  *)
(* classifier of transcribe.py, the result cache of cache.py and the       *)
(* /transcribe request path of main.py.                                    *)
(*                                                                         *)
(* Text is a sequence of characters; a character is a one-character string *)
(* (a non-ASCII character is written by its code point, "U+266A").         *)
(* Probabilities and log-probabilities are integers in thousandths (the    *)
(* code rounds them to 3 decimals), durations are integers in              *)
(* milliseconds; means are compared exactly (sum against threshold * n).   *)
(***************************************************************************)
EXTENDS Integers, Sequences, FiniteSets, TLC

\* An optional value: Python's None, or a value v held as Some(v).
None == << >>
Some(v) == <<v>>
ValueOf(opt) == opt[1]

(***************************************************************************)
(* Characters                                                              *)
(***************************************************************************)
UpperLetters == <<"A","B","C","D","E","F","G","H","I","J","K","L","M",
                  "N","O","P","Q","R","S","T","U","V","W","X","Y","Z">>
LowerLetters == <<"a","b","c","d","e","f","g","h","i","j","k","l","m",
                  "n","o","p","q","r","s","t","u","v","w","x","y","z">>
DigitChars == <<"0","1","2","3","4","5","6","7","8","9">>
\* The letters outside ASCII that occur in HALLUCINATION_PHRASES (kana, han, hangul).
UnicodeLetters ==
    { "U+3042","U+3044","U+3046","U+304C","U+3054","U+3056","U+3057","U+305F",
      "U+3068","U+307E","U+308A","U+4E0D","U+541D","U+5B57","U+5E55","U+7531",
      "U+770B","U+8074","U+8996","U+89C2","U+8A02","U+8ACB","U+8B9A","U+8C22",
      "U+95B1","U+9EDE","U+AC10","U+B2C8","U+B2E4","U+B9AC","U+C0AC","U+C18C",
      "U+D569" }

Range(s) == { s[i] : i \in 1..Len(s) }

\* \s of a Python 3 str pattern, and the separators of str.split() / str.strip().
IsSpace(c) == c \in {" ", "\t", "\n", "\r"}

\* \w of a Python 3 str pattern: letters, digits and the underscore.
WordChars ==
    Range(LowerLetters) \cup Range(UpperLetters) \cup Range(DigitChars)
        \cup {"_"} \cup UnicodeLetters
IsWordChar(c) == c \in WordChars

\* str.lower() on one character.
lower_char(c) ==
    IF \E i \in 1..Len(UpperLetters) : UpperLetters[i] = c
    THEN LowerLetters[CHOOSE i \in 1..Len(UpperLetters) : UpperLetters[i] = c]
    ELSE c

(***************************************************************************)
(* Text                                                                    *)
(***************************************************************************)
\* str.lower()
lower(text) == [i \in 1..Len(text) |-> lower_char(text[i])]

SetMin(S) == CHOOSE x \in S : \A y \in S : x <= y
SetMax(S) == CHOOSE x \in S : \A y \in S : x >= y

\* str.strip(): drop leading and trailing whitespace.
strip(text) ==
    LET solid == { i \in 1..Len(text) : ~IsSpace(text[i]) }
    IN  IF solid = {} THEN <<>> ELSE SubSeq(text, SetMin(solid), SetMax(solid))

\* re.sub(r"[^\w\s']", "", text): delete every character that is neither a
\* word character, nor whitespace, nor an apostrophe.
strip_punctuation(text) ==
    SelectSeq(text, LAMBDA c : IsWordChar(c) \/ IsSpace(c) \/ c = "'")

\* re.sub(r"\s+", " ", text): every maximal run of whitespace becomes one space.
collapse_whitespace(text) ==
    LET F[i \in 0..Len(text)] ==
            IF i = 0 THEN <<>>
            ELSE IF ~IsSpace(text[i]) THEN Append(F[i-1], text[i])
            ELSE IF i > 1 /\ IsSpace(text[i-1]) THEN F[i-1]
            ELSE Append(F[i-1], " ")
    IN  F[Len(text)]

\* str.split(): the maximal runs of non-whitespace, in order.
RECURSIVE split_from(_, _)
split_from(text, i) ==
    LET solid == { j \in i..Len(text) : ~IsSpace(text[j]) }
    IN  IF solid = {} THEN <<>>
        ELSE LET first == SetMin(solid)
                 spaces == { j \in first..Len(text) : IsSpace(text[j]) }
                 last == IF spaces = {} THEN Len(text) ELSE SetMin(spaces) - 1
             IN  <<SubSeq(text, first, last)>> \o split_from(text, last + 1)

split(text) == split_from(text, 1)

\* sep.join(parts)
RECURSIVE join(_, _)
join(sep, parts) ==
    IF parts = <<>> THEN <<>>
    ELSE IF Len(parts) = 1 THEN parts[1]
    ELSE parts[1] \o sep \o join(sep, Tail(parts))

\* `pattern in text` for two str.
IsSubstring(pattern, text) ==
    \E i \in 0..(Len(text) - Len(pattern)) :
        SubSeq(text, i + 1, i + Len(pattern)) = pattern

RECURSIVE Sum(_)
Sum(s) == IF s = <<>> THEN 0 ELSE s[1] + Sum(Tail(s))

\* str(n) for a natural number n.
RECURSIVE str_int(_)
str_int(n) ==
    IF n < 10 THEN <<DigitChars[n + 1]>>
    ELSE str_int(n \div 10) \o <<DigitChars[(n % 10) + 1]>>

(***************************************************************************)
(* transcribe.py: the known phrases                                        *)
(***************************************************************************)
HALLUCINATION_PHRASES ==
    { <<"t","h","a","n","k","s"," ","f","o","r"," ","w","a","t","c","h","i","n","g">>,
      <<"t","h","a","n","k"," ","y","o","u"," ","f","o","r"," ","w","a","t","c","h","i","n","g">>,
      <<"t","h","a","n","k","s"," ","f","o","r"," ","w","a","t","c","h","i","n","g"," ","a","n","d"," ","i","'","l","l"," ","s","e","e"," ","y","o","u"," ","i","n"," ","t","h","e"," ","n","e","x","t"," ","v","i","d","e","o">>,
      <<"t","h","a","n","k","s"," ","f","o","r"," ","w","a","t","c","h","i","n","g"," ","a","n","d"," ","i","l","l"," ","s","e","e"," ","y","o","u"," ","i","n"," ","t","h","e"," ","n","e","x","t"," ","v","i","d","e","o">>,
      <<"t","h","a","n","k"," ","y","o","u"," ","f","o","r"," ","w","a","t","c","h","i","n","g"," ","a","n","d"," ","i","'","l","l"," ","s","e","e"," ","y","o","u"," ","i","n"," ","t","h","e"," ","n","e","x","t"," ","v","i","d","e","o">>,
      <<"s","e","e"," ","y","o","u"," ","i","n"," ","t","h","e"," ","n","e","x","t"," ","v","i","d","e","o">>,
      <<"i","'","l","l"," ","s","e","e"," ","y","o","u"," ","i","n"," ","t","h","e"," ","n","e","x","t"," ","v","i","d","e","o">>,
      <<"i","l","l"," ","s","e","e"," ","y","o","u"," ","i","n"," ","t","h","e"," ","n","e","x","t"," ","v","i","d","e","o">>,
      <<"s","e","e"," ","y","o","u"," ","i","n"," ","t","h","e"," ","n","e","x","t"," ","o","n","e">>,
      <<"i","'","l","l"," ","s","e","e"," ","y","o","u"," ","i","n"," ","t","h","e"," ","n","e","x","t"," ","o","n","e">>,
      <<"s","e","e"," ","y","o","u"," ","n","e","x","t"," ","t","i","m","e">>,
      <<"t","h","a","n","k","s"," ","f","o","r"," ","l","i","s","t","e","n","i","n","g">>,
      <<"t","h","a","n","k"," ","y","o","u"," ","f","o","r"," ","l","i","s","t","e","n","i","n","g">>,
      <<"t","h","a","n","k"," ","y","o","u"," ","v","e","r","y"," ","m","u","c","h">>,
      <<"t","h","a","n","k"," ","y","o","u"," ","s","o"," ","m","u","c","h">>,
      <<"t","h","a","n","k"," ","y","o","u">>,
      <<"t","h","a","n","k","s">>,
      <<"b","y","e"," ","b","y","e">>,
      <<"b","y","e">>,
      <<"g","o","o","d","b","y","e">>,
      <<"g","o","o","d"," ","b","y","e">>,
      <<"p","l","e","a","s","e"," ","s","u","b","s","c","r","i","b","e">>,
      <<"s","u","b","s","c","r","i","b","e"," ","t","o"," ","m","y"," ","c","h","a","n","n","e","l">>,
      <<"l","i","k","e"," ","a","n","d"," ","s","u","b","s","c","r","i","b","e">>,
      <<"p","l","e","a","s","e"," ","l","i","k","e"," ","a","n","d"," ","s","u","b","s","c","r","i","b","e">>,
      <<"d","o","n","'","t"," ","f","o","r","g","e","t"," ","t","o"," ","s","u","b","s","c","r","i","b","e">>,
      <<"h","i","t"," ","t","h","e"," ","s","u","b","s","c","r","i","b","e"," ","b","u","t","t","o","n">>,
      <<"h","i","t"," ","t","h","e"," ","l","i","k","e"," ","b","u","t","t","o","n">>,
      <<"l","e","a","v","e"," ","a"," ","c","o","m","m","e","n","t">>,
      <<"p","l","e","a","s","e"," ","l","e","a","v","e"," ","a"," ","l","i","k","e">>,
      <<"h","e","y"," ","g","u","y","s">>,
      <<"h","i"," ","e","v","e","r","y","o","n","e">>,
      <<"h","e","l","l","o"," ","e","v","e","r","y","o","n","e">>,
      <<"w","h","a","t","'","s"," ","u","p"," ","g","u","y","s">>,
      <<"w","h","a","t","s"," ","u","p"," ","g","u","y","s">>,
      <<"w","e","l","c","o","m","e"," ","b","a","c","k">>,
      <<"w","e","l","c","o","m","e"," ","t","o"," ","m","y"," ","c","h","a","n","n","e","l">>,
      <<"h","e","y"," ","w","h","a","t","'","s"," ","u","p">>,
      <<"y","o","u","'","v","e"," ","b","e","e","n"," ","l","i","s","t","e","n","i","n","g"," ","t","o">>,
      <<"t","h","i","s"," ","h","a","s"," ","b","e","e","n">>,
      <<"t","h","a","t","'","s"," ","a","l","l"," ","f","o","r"," ","t","o","d","a","y">>,
      <<"t","h","a","t","s"," ","a","l","l"," ","f","o","r"," ","t","o","d","a","y">>,
      <<"t","h","a","t","'","s"," ","i","t"," ","f","o","r"," ","t","o","d","a","y">>,
      <<"u","n","t","i","l"," ","n","e","x","t"," ","t","i","m","e">>,
      <<"U+266A">>,
      <<"m","u","s","i","c">>,
      <<"m","u","s","i","c"," ","p","l","a","y","i","n","g">>,
      <<"b","a","c","k","g","r","o","u","n","d"," ","m","u","s","i","c">>,
      <<"a","p","p","l","a","u","s","e">>,
      <<"l","a","u","g","h","t","e","r">>,
      <<".",".",".">>,
      <<"s","i","l","e","n","c","e">>,
      <<"n","o"," ","s","p","e","e","c","h"," ","d","e","t","e","c","t","e","d">>,
      <<"U+3054","U+8996","U+8074","U+3042","U+308A","U+304C","U+3068","U+3046","U+3054","U+3056","U+3044","U+307E","U+3057","U+305F">>,
      <<"U+5B57","U+5E55","U+7531">>,
      <<"U+5B57","U+5E55">>,
      <<"U+8ACB","U+4E0D","U+541D","U+9EDE","U+8B9A">>,
      <<"U+8A02","U+95B1">>,
      <<"U+8C22","U+8C22","U+89C2","U+770B">>,
      <<"U+AC10","U+C0AC","U+D569","U+B2C8","U+B2E4">>,
      <<"U+C18C","U+B9AC">> }

HALLUCINATION_SUBSTRINGS ==
    << <<"t","h","a","n","k","s"," ","f","o","r"," ","w","a","t","c","h","i","n","g">>,
       <<"t","h","a","n","k"," ","y","o","u"," ","f","o","r"," ","w","a","t","c","h","i","n","g">>,
       <<"s","e","e"," ","y","o","u"," ","i","n"," ","t","h","e"," ","n","e","x","t"," ","v","i","d","e","o">>,
       <<"s","e","e"," ","y","o","u"," ","i","n"," ","t","h","e"," ","n","e","x","t"," ","o","n","e">>,
       <<"s","u","b","s","c","r","i","b","e"," ","t","o"," ","m","y"," ","c","h","a","n","n","e","l">>,
       <<"l","i","k","e"," ","a","n","d"," ","s","u","b","s","c","r","i","b","e">>,
       <<"d","o","n","'","t"," ","f","o","r","g","e","t"," ","t","o"," ","s","u","b","s","c","r","i","b","e">>,
       <<"h","i","t"," ","t","h","e"," ","s","u","b","s","c","r","i","b","e"," ","b","u","t","t","o","n">>,
       <<"w","e","l","c","o","m","e"," ","t","o"," ","m","y"," ","c","h","a","n","n","e","l">>,
       <<"m","o","z","i","l","a","f","o","u","n","d","a","t","i","o","n">>,
       <<"m","o","z","i","l","l","a"," ","f","o","u","n","d","a","t","i","o","n">>,
       <<"a","m","a","r","a",".","o","r","g">>,
       <<"s","u","b","t","i","t","l","e","s"," ","b","y">>,
       <<"c","a","p","t","i","o","n","s"," ","b","y">>,
       <<"t","r","a","n","s","c","r","i","b","e","d"," ","b","y">> >>

\* transcribe.py:134-141
_normalize_text(text) ==
    LET lowered == strip(lower(text))
        kept == strip_punctuation(lowered)
    IN  strip(collapse_whitespace(kept))

(***************************************************************************)
(* transcribe.py: is_hallucination                                         *)
(*                                                                         *)
(* A reason is the text the f-string builds.  A float the f-string formats *)
(* ({x:.3f}, {x:.2f}) is kept as one token naming the field, since no      *)
(* decision depends on its digits.                                         *)
(***************************************************************************)
\* Mutant of exact_match_reason: the phrase is not quoted.
exact_match_reason_unquoted(normalized) ==
    <<"e","x","a","c","t","_","m","a","t","c","h",":"," ">> \o normalized

\* f"exact_match: '{normalized}'"
exact_match_reason(normalized) ==
    <<"e","x","a","c","t","_","m","a","t","c","h",":"," ","'">> \o normalized \o <<"'">>

\* f"substring_match: '{pattern}' in '{normalized}'"
substring_match_reason(pattern, normalized) ==
    <<"s","u","b","s","t","r","i","n","g","_","m","a","t","c","h",":"," ","'">>
        \o pattern \o <<"'"," ","i","n"," ","'">> \o normalized \o <<"'">>

\* f"high_no_speech_prob: {avg_no_speech:.3f}"
high_no_speech_prob_reason ==
    <<"h","i","g","h","_","n","o","_","s","p","e","e","c","h","_","p","r","o","b",":"," ">>
        \o <<"{avg_no_speech:.3f}">>

\* f"low_confidence_short_audio: logprob={avg_confidence:.3f}, duration={audio_duration:.2f}s"
low_confidence_short_audio_reason ==
    <<"l","o","w","_","c","o","n","f","i","d","e","n","c","e","_","s","h","o","r","t","_",
      "a","u","d","i","o",":"," ","l","o","g","p","r","o","b","=">>
        \o <<"{avg_confidence:.3f}">> \o <<","," ","d","u","r","a","t","i","o","n","=">>
        \o <<"{audio_duration:.2f}">> \o <<"s">>

\* f"duration_mismatch: {word_count} words in {audio_duration:.2f}s audio"
duration_mismatch_reason(word_count) ==
    <<"d","u","r","a","t","i","o","n","_","m","i","s","m","a","t","c","h",":"," ">>
        \o str_int(word_count) \o <<" ","w","o","r","d","s"," ","i","n"," ">>
        \o <<"{audio_duration:.2f}">> \o <<"s"," ","a","u","d","i","o">>

\* f"high_compression_ratio: {compression_ratio:.2f} ({len(words)} words, {unique_words} unique)"
high_compression_ratio_reason(n_words, unique_words) ==
    <<"h","i","g","h","_","c","o","m","p","r","e","s","s","i","o","n","_","r","a","t","i","o",":"," ">>
        \o <<"{compression_ratio:.2f}">> \o <<" ","(">> \o str_int(n_words)
        \o <<" ","w","o","r","d","s",","," ">> \o str_int(unique_words)
        \o <<" ","u","n","i","q","u","e",")">>

\* f"repeated_phrase: '{repeated_bigram}' repeated {max_repetitions}x"
repeated_phrase_reason(repeated_bigram, max_repetitions) ==
    <<"r","e","p","e","a","t","e","d","_","p","h","r","a","s","e",":"," ","'">>
        \o repeated_bigram \o <<"'"," ","r","e","p","e","a","t","e","d"," ">>
        \o str_int(max_repetitions) \o <<"x">>

\* [s.get(key, 0) for s in segments if s.get(key) is not None]
populated(segments, key) ==
    LET present == SelectSeq(segments, LAMBDA s : key \in DOMAIN s /\ s[key] # None)
    IN  [i \in 1..Len(present) |-> ValueOf(present[i][key])]

\* [f"{words[i]} {words[i+1]}" for i in range(len(words)-1)]
bigrams_of(words) ==
    [i \in 1..(Len(words) - 1) |-> words[i] \o <<" ">> \o words[i+1]]

\* bigram_counts[bg]: the number of positions holding bg.
bigram_count(bigrams, bg) == Cardinality({ i \in 1..Len(bigrams) : bigrams[i] = bg })

\* max(bigram_counts.values()) if bigram_counts else 0
max_repetitions_of(bigrams) ==
    IF bigrams = <<>> THEN 0
    ELSE SetMax({ bigram_count(bigrams, bigrams[i]) : i \in 1..Len(bigrams) })

\* [bg for bg, count in bigram_counts.items() if count == max_repetitions][0]:
\* a dict keeps its keys in order of first insertion.
repeated_bigram_of(bigrams) ==
    bigrams[SetMin({ i \in 1..Len(bigrams) :
                        bigram_count(bigrams, bigrams[i]) = max_repetitions_of(bigrams) })]

\* transcribe.py:196-201, rule 4 (duration mismatch)
duration_mismatch(transcript, audio_duration) ==
    audio_duration < 1500 /\ Len(split(transcript)) > 8

\* transcribe.py:203-210, rule 5 (compression ratio): len(words) / unique > 3.0
high_compression_ratio(words) ==
    Len(words) > 3 /\ Len(words) > 3 * Cardinality(Range(words))

\* transcribe.py:212-223, rule 6 (repeated bigram)
repeated_phrase(words) ==
    Len(words) >= 4 /\ max_repetitions_of(bigrams_of(words)) >= 3

\* Mutant of high_no_speech_prob: the threshold is met at 0.6 (>= for >).
high_no_speech_prob_inclusive(segments) ==
    LET no_speech_probs == populated(segments, "no_speech_prob")
    IN  /\ segments # <<>>
        /\ no_speech_probs # <<>>
        /\ Sum(no_speech_probs) >= 600 * Len(no_speech_probs)

\* transcribe.py:184-188: mean no-speech probability above 0.6
high_no_speech_prob(segments) ==
    LET no_speech_probs == populated(segments, "no_speech_prob")
    IN  /\ segments # <<>>
        /\ no_speech_probs # <<>>
        /\ Sum(no_speech_probs) > 600 * Len(no_speech_probs)

\* transcribe.py:190-194: mean log-probability below -1.0 on audio under 3.0 s
low_confidence_short_audio(segments, audio_duration) ==
    LET avg_logprobs == populated(segments, "avg_logprob")
    IN  /\ segments # <<>>
        /\ avg_logprobs # <<>>
        /\ audio_duration < 3000
        /\ Sum(avg_logprobs) < (-1000) * Len(avg_logprobs)

\* transcribe.py:174-177: the first pattern of the list that occurs in normalized
first_substring_match(normalized) ==
    LET hits == { i \in 1..Len(HALLUCINATION_SUBSTRINGS) :
                    IsSubstring(HALLUCINATION_SUBSTRINGS[i], normalized) }
    IN  IF hits = {} THEN None ELSE Some(HALLUCINATION_SUBSTRINGS[SetMin(hits)])

\* Mutant of is_blank: only the empty string counts as blank (`not transcript`).
is_blank_empty_only(transcript) == transcript = <<>>

\* transcribe.py:165: `not transcript or not transcript.strip()`
is_blank(transcript) == transcript = <<>> \/ strip(transcript) = <<>>

\* transcribe.py:144-225.  Returns <<is_hallucination, reason>>.
is_hallucination(transcript, segments, audio_duration) ==
    IF is_blank(transcript) THEN <<FALSE, <<>>>>
    ELSE
    LET normalized == _normalize_text(transcript)
        pattern == first_substring_match(normalized)
        words == split(lower(transcript))
    IN  IF normalized \in HALLUCINATION_PHRASES
            THEN <<TRUE, exact_match_reason(normalized)>>
        ELSE IF pattern # None
            THEN <<TRUE, substring_match_reason(ValueOf(pattern), normalized)>>
        ELSE IF high_no_speech_prob(segments)
            THEN <<TRUE, high_no_speech_prob_reason>>
        ELSE IF low_confidence_short_audio(segments, audio_duration)
            THEN <<TRUE, low_confidence_short_audio_reason>>
        ELSE IF duration_mismatch(transcript, audio_duration)
            THEN <<TRUE, duration_mismatch_reason(Len(split(transcript)))>>
        ELSE IF high_compression_ratio(words)
            THEN <<TRUE, high_compression_ratio_reason(Len(words), Cardinality(Range(words)))>>
        ELSE IF repeated_phrase(words)
            THEN <<TRUE, repeated_phrase_reason(repeated_bigram_of(bigrams_of(words)),
                                                max_repetitions_of(bigrams_of(words)))>>
        ELSE <<FALSE, <<>>>>

(***************************************************************************)
(* State                                                                   *)
(***************************************************************************)
VARIABLES
    \* one call of is_hallucination
    h_pc,           \* "idle", "call" before is_hallucination runs, "returned" after
    h_transcript,   \* its transcript argument
    h_segments,     \* its segments argument
    h_duration,     \* its audio_duration argument, in milliseconds
    h_result,       \* what it returned: <<is_hallucination, reason>>
    \* the backing key-value store (Redis), outside the process
    redis_up,       \* whether a command sent now is answered (else it raises)
    store,          \* its content: a function from the keys present to their values
    stored,         \* history: for the byte strings whose entry a set wrote and the
                    \* store still holds, the value given to set and the file name
                    \* of the request it was made for
    \* cache.py / main.py:68
    CACHE_ENABLED,  \* config.CACHE_ENABLED, read once from the environment
    cache,          \* the module-level `cache` object: [kind, _client]
    reachable_at_init,  \* history: None before get_cache(), then Some(redis_up at that time)
    last_call,      \* history: the last direct call of cache.get / set / clear; what
                    \* it returned (entry for get, ok for set, deleted for clear) or
                    \* that it raised (exc); whether an earlier call failed
                    \* (after_fault) and the bytes of a set that returned True after
                    \* that (recovered)
    \* transcribe.py:228
    _whisper_model, \* None until the model is loaded, then Some(the instance)
    constructed,    \* history: how many WhisperModel instances have been constructed
    \* main.py: the service and the one request its handler is working on
    pc,             \* "boot", "idle", or the step of transcribe() that comes next
    upload,         \* the request's file: None, or Some([filename, bytes, size])
    status,         \* local `status`
    cached,         \* local `cached`
    cached_result,  \* local `cached_result`
    audio_data,     \* what preprocess_audio returned
    result,         \* local `result`
    response,       \* None, or Some(what the client receives)
    calls,          \* history: the calls the handler made for this request
    failure,        \* history: which call of the pipeline raised, or "none"
    active_requests,                \* main.py:49 the gauge
    transcription_requests_total,   \* main.py:27 the counter, one value per label pair
    \* transcribe.py:395 one call of preprocess_audio
    p_pc,           \* the stage that comes next, or "returned" / "raised"
    p_clip,         \* its input: what the decoders make of the file
    p_shape,        \* audio_data.shape
    p_sample_rate,  \* local `sample_rate`
    p_peak,         \* np.max(np.abs(audio_data)), in units of 1/32767
    p_error,        \* the message of the ValueError raised, "" when none
    p_skipped,      \* history: how many of the stages before the voice-activity
                    \* stage raised and were skipped
    p_vad           \* history: what the voice-activity stage did

classifier_vars == <<h_pc, h_transcript, h_segments, h_duration, h_result>>
redis_vars == <<redis_up, store, stored>>
cache_vars == <<CACHE_ENABLED, cache, reachable_at_init, last_call>>
handler_vars == <<upload, status, cached, cached_result, audio_data, result, response,
                  calls, failure>>
metrics_vars == <<active_requests, transcription_requests_total>>
service_vars == <<pc, _whisper_model, constructed, handler_vars, metrics_vars>>
conditioning_vars == <<p_pc, p_clip, p_shape, p_sample_rate, p_peak, p_error, p_skipped, p_vad>>
vars == <<classifier_vars, redis_vars, cache_vars, service_vars, conditioning_vars>>

(***************************************************************************)
(* Inputs of the classifier                                                *)
(***************************************************************************)
MaxWords == 2
MaxRepeat == 5

W_hello == <<"h","e","l","l","o">>
W_bye == <<"b","y","e">>
W_captions_by == <<"c","a","p","t","i","o","n","s"," ","b","y">>
Vocabulary == {W_hello, W_bye, W_captions_by}

RECURSIVE SeqsUpTo(_, _)
SeqsUpTo(S, n) ==
    IF n = 0 THEN {<<>>}
    ELSE LET shorter == SeqsUpTo(S, n - 1)
         IN  shorter \cup { Append(s, x) : s \in shorter, x \in S }

RECURSIVE Repeat(_, _)
Repeat(s, k) == IF k = 0 THEN <<>> ELSE s \o Repeat(s, k - 1)

\* "Hello" for "hello"
Capitalize(w) ==
    IF w = <<>> THEN w
    ELSE [w EXCEPT ![1] =
            IF \E i \in 1..Len(LowerLetters) : LowerLetters[i] = w[1]
            THEN UpperLetters[CHOOSE i \in 1..Len(LowerLetters) : LowerLetters[i] = w[1]]
            ELSE w[1]]

\* A phrase list written out the way a model may emit it.
Render(ws, style) ==
    CASE style = "plain"  -> join(<<" ">>, ws)
      [] style = "punct"  -> join(<<","," ">>, [i \in 1..Len(ws) |-> Capitalize(ws[i])])
                                \o (IF ws = <<>> THEN <<>> ELSE <<".">>)
      [] style = "spaced" -> <<" ">> \o join(<<" ","\t">>, ws) \o <<" ">>

Styles == {"plain", "punct", "spaced"}

TestTranscripts ==
    { Render(Repeat(ws, k), style) :
        ws \in SeqsUpTo(Vocabulary, MaxWords), k \in 1..MaxRepeat, style \in Styles }
    \cup { <<>>, <<".",".",".">>, <<"U+266A">>,
           <<"t","h","a","n","k","s"," ","f","o","r"," ","w","a","t","c","h","i","n","g">>,
           <<"T","h","a","n","k","s"," ","f","o","r"," ","w","a","t","c","h","i","n","g","!">>,
           <<"I"," ","f","e","e","l"," ","a","n","x","i","o","u","s"," ","a","b","o","u","t",
             " ","m","y"," ","w","o","r","k">>,
           <<"a","m","a","r","a",".","o","r","g">>,
           <<"[","B","L","A","N","K","_","A","U","D","I","O","]">> }

Seg(no_speech_prob, avg_logprob) ==
    [no_speech_prob |-> no_speech_prob, avg_logprob |-> avg_logprob]

TestSegmentLists ==
    { <<>>,
      <<Seg(None, None)>>,
      <<Seg(Some(100), Some(-300))>>,
      <<Seg(Some(600), Some(-1000))>>,
      <<Seg(Some(900), Some(-300))>>,
      <<Seg(Some(100), Some(-1500))>>,
      <<Seg(Some(900), Some(-1500))>>,
      <<Seg(Some(900), None), Seg(Some(100), Some(-300))>>,
      <<Seg(Some(900), Some(-2000)), Seg(None, None), Seg(Some(400), Some(-300))>> }

\* milliseconds: below, at and above the 1.5 s and 3.0 s thresholds
TestDurations == {1000, 1500, 2000, 3000}

\* is_hallucination is not being called on its own.
ClassifierIdle ==
    /\ h_pc = "idle"
    /\ h_transcript = <<>>
    /\ h_segments = <<>>
    /\ h_duration = 0
    /\ h_result = <<FALSE, <<>>>>

(***************************************************************************)
(* The backing store: redis-py commands as the cache issues them.          *)
(* A command returns [exc |-> TRUE] when the store does not answer.        *)
(***************************************************************************)
Raise == [exc |-> TRUE, ret |-> None]
Return(v) == [exc |-> FALSE, ret |-> v]

\* A key of another application in the same Redis database.
ForeignKey == <<"session:", "x">>
ForeignValue == [kind |-> "text", members |-> {}]

\* self._client.ping()
redis_PING == IF redis_up THEN Return(TRUE) ELSE Raise

\* self._client.get(key): the value, or None for a missing key
redis_GET(key) ==
    IF ~redis_up THEN Raise
    ELSE IF key \in DOMAIN store THEN Return(Some(store[key]))
    ELSE Return(None)

\* self._client.setex(key, ttl, value): ret is the store afterwards
redis_SETEX(key, ttl, value) ==
    IF ~redis_up THEN Raise
    ELSE Return([k \in DOMAIN store \cup {key} |-> IF k = key THEN value ELSE store[k]])

\* list(self._client.scan_iter("transcription:*"))
redis_SCAN(prefix) ==
    IF ~redis_up THEN Raise
    ELSE Return({ k \in DOMAIN store : k[1] = prefix })

\* self._client.delete(*keys): ret is <<number deleted, the store afterwards>>
redis_DELETE(keys) ==
    IF ~redis_up THEN Raise
    ELSE Return(<< Cardinality(keys \cap DOMAIN store),
                   [k \in DOMAIN store \ keys |-> store[k]] >>)

\* json.dumps(doc): the text stored for a dict whose keys are str, a JSON
\* object given by its members "key": value.  The values of a result (str,
\* float, bool, None, and lists and dicts of these) are written and read back
\* unchanged.
json_dumps(doc) == [kind |-> "json", members |-> { <<k, doc[k]>> : k \in DOMAIN doc }]

\* json.loads(text): the dict of a JSON object, or a raised JSONDecodeError
\* for other text
json_loads(text) ==
    IF text.kind = "json"
    THEN Return([k \in { m[1] : m \in text.members } |->
                    (CHOOSE m \in text.members : m[1] = k)[2]])
    ELSE Raise

\* datetime.utcnow().isoformat(): the instants are not told apart.
utcnow_isoformat == "utcnow"

(***************************************************************************)
(* cache.py                                                                *)
(***************************************************************************)
\* Mutant of _compute_hash: the digest does not depend on the bytes.
_compute_hash_of_nothing(audio_bytes) == <<"sha256", "">>

\* cache.py:61-72: SHA-256 of the bytes, taken to be injective.
_compute_hash(audio_bytes) == <<"sha256", audio_bytes>>

\* f"transcription:{cache_key}"
transcription_key(cache_key) == <<"transcription:", cache_key>>

\* Mutant of RedisCache_connect: the client built by from_url survives a failed ping.
RedisCache_connect_keeps_client == Some("redis.Redis")

\* cache.py:34-49: the value _connect leaves in self._client
RedisCache_connect ==
    IF redis_PING.exc THEN None ELSE Some("redis.Redis")

\* Mutant of RedisCache_get_body: the decoded entry is returned as stored.
RedisCache_get_body_unmarked(audio_bytes) ==
    LET cache_key == _compute_hash(audio_bytes)
        cached_json == redis_GET(transcription_key(cache_key))
    IN  IF cached_json.exc THEN Raise
        ELSE IF cached_json.ret # None
            THEN LET decoded == json_loads(ValueOf(cached_json.ret))
                 IN  IF decoded.exc THEN Raise ELSE Return(Some(decoded.ret))
        ELSE Return(None)

\* cache.py:87-102: the body of get's try block
RedisCache_get_body(audio_bytes) ==
    LET cache_key == _compute_hash(audio_bytes)
        cached_json == redis_GET(transcription_key(cache_key))
    IN  IF cached_json.exc THEN Raise
        ELSE IF cached_json.ret # None
            THEN LET decoded == json_loads(ValueOf(cached_json.ret))
                 IN  IF decoded.exc THEN Raise
                     ELSE Return(Some([cache_hit |-> TRUE,
                                       cache_hit_at |-> utcnow_isoformat] @@ decoded.ret))
        ELSE Return(None)

\* Mutant of RedisCache_get: the except clause is missing, an error propagates.
RedisCache_get_uncaught(audio_bytes) ==
    IF cache._client = None THEN Return(None)
    ELSE RedisCache_get_body(audio_bytes)

\* cache.py:74-106
RedisCache_get(audio_bytes) ==
    IF cache._client = None THEN Return(None)
    ELSE LET body == RedisCache_get_body(audio_bytes)
         IN  IF body.exc THEN Return(None) ELSE body

\* cache.py:122-139: the body of set's try block; ret is <<True, the store afterwards>>
RedisCache_set_body(audio_bytes, value) ==
    LET cache_key == _compute_hash(audio_bytes)
        cache_entry == [cached_at |-> utcnow_isoformat, cache_hit |-> FALSE] @@ value
        reply == redis_SETEX(transcription_key(cache_key), "ttl", json_dumps(cache_entry))
    IN  IF reply.exc THEN Raise ELSE Return(<<TRUE, reply.ret>>)

\* Mutant of RedisCache_set: the except clause is missing, an error propagates.
RedisCache_set_uncaught(audio_bytes, value) ==
    IF cache._client = None THEN Return(<<FALSE, store>>)
    ELSE RedisCache_set_body(audio_bytes, value)

\* cache.py:108-143; ret is <<returned bool, the store afterwards>>
RedisCache_set(audio_bytes, value) ==
    IF cache._client = None THEN Return(<<FALSE, store>>)
    ELSE LET body == RedisCache_set_body(audio_bytes, value)
         IN  IF body.exc THEN Return(<<FALSE, store>>) ELSE body

\* Mutant of RedisCache_clear_body: only one of the keys found is deleted.
RedisCache_clear_body_one_key ==
    LET keys == redis_SCAN("transcription:")
    IN  IF keys.exc THEN Raise
        ELSE IF keys.ret # {}
            THEN LET deleted == redis_DELETE({CHOOSE k \in keys.ret : TRUE})
                 IN  IF deleted.exc THEN Raise ELSE deleted
        ELSE Return(<<0, store>>)

\* cache.py:156-163: the body of clear's try block; ret is <<deleted, the store afterwards>>
RedisCache_clear_body ==
    LET keys == redis_SCAN("transcription:")
    IN  IF keys.exc THEN Raise
        ELSE IF keys.ret # {}
            THEN LET deleted == redis_DELETE(keys.ret)
                 IN  IF deleted.exc THEN Raise ELSE deleted
        ELSE Return(<<0, store>>)

\* cache.py:145-167
RedisCache_clear ==
    IF cache._client = None THEN Return(<<0, store>>)
    ELSE LET body == RedisCache_clear_body
         IN  IF body.exc THEN Return(<<0, store>>) ELSE body

\* cache.py:170-186
NoOpCache_get(audio_bytes) == Return(None)
NoOpCache_set(audio_bytes, value) == Return(<<FALSE, store>>)
NoOpCache_clear == Return(<<0, store>>)

\* cache.get / cache.set / cache.clear on whichever object get_cache() built
cache_get(audio_bytes) ==
    IF cache.kind = "NoOpCache" THEN NoOpCache_get(audio_bytes)
    ELSE RedisCache_get(audio_bytes)
cache_set(audio_bytes, value) ==
    IF cache.kind = "NoOpCache" THEN NoOpCache_set(audio_bytes, value)
    ELSE RedisCache_set(audio_bytes, value)
cache_clear ==
    IF cache.kind = "NoOpCache" THEN NoOpCache_clear ELSE RedisCache_clear

\* Whether the try block of the call raised (a transport or a decoding error).
get_faulted(audio_bytes) ==
    cache.kind = "RedisCache" /\ cache._client # None /\ RedisCache_get_body(audio_bytes).exc
set_faulted(audio_bytes, value) ==
    cache.kind = "RedisCache" /\ cache._client # None
        /\ RedisCache_set_body(audio_bytes, value).exc
clear_faulted ==
    cache.kind = "RedisCache" /\ cache._client # None /\ RedisCache_clear_body.exc

\* The call did not reach the store or was not answered as it should be.
cache_failed_get(audio_bytes) ==
    cache.kind = "RedisCache" /\ (cache._client = None \/ RedisCache_get_body(audio_bytes).exc)
cache_failed_set(audio_bytes, value) ==
    cache.kind = "RedisCache"
        /\ (cache._client = None \/ RedisCache_set_body(audio_bytes, value).exc)

\* Mutant of client_after_call: a call that failed drops the client.
client_after_call_disabling(faulted) == IF faulted THEN None ELSE cache._client

\* cache.py:104-106, 141-143, 165-167: self._client after a call; the except
\* clauses leave it as it is.
client_after_call(faulted) == cache._client

\* The bytes a key of the transcription namespace was computed from.
bytes_of(key) == key[2][2]

\* History: `stored` without the entries of the given byte strings.
forget(gone) == [b \in DOMAIN stored \ gone |-> stored[b]]

\* History: `stored` after a set of value under audio_bytes returned True, made
\* for a request with file name by (None for a direct call).
remember(audio_bytes, value, by) ==
    [b \in DOMAIN stored \cup {audio_bytes} |->
        IF b = audio_bytes THEN [value |-> value, by |-> by] ELSE stored[b]]

\* Before main.py:68 has run.
CacheNotBuilt ==
    /\ store = [k \in {ForeignKey} |-> ForeignValue]
    /\ stored = << >>
    /\ cache = [kind |-> "unset", _client |-> None]
    /\ reachable_at_init = None
    /\ last_call = [op |-> "none", arg |-> None, exc |-> FALSE,
                    entry |-> None, ok |-> FALSE, deleted |-> 0,
                    faulted |-> FALSE, after_fault |-> FALSE, recovered |-> None]

\* cache.py:189-199 with RedisCache.__init__ (21-32)
get_cache ==
    /\ cache.kind = "unset"
    /\ cache' = IF CACHE_ENABLED
                THEN [kind |-> "RedisCache", _client |-> RedisCache_connect]
                ELSE [kind |-> "NoOpCache", _client |-> None]
    /\ reachable_at_init' = Some(redis_up)
    /\ UNCHANGED <<CACHE_ENABLED, last_call, redis_vars, classifier_vars, conditioning_vars, service_vars>>

(***************************************************************************)
(* The environment of the cache                                            *)
(***************************************************************************)
\* The store stops answering, or answers again.
RedisDown ==
    /\ redis_up
    /\ redis_up' = FALSE
    /\ UNCHANGED <<store, stored, cache_vars, classifier_vars, conditioning_vars, service_vars>>

RedisUp ==
    /\ ~redis_up
    /\ redis_up' = TRUE
    /\ UNCHANGED <<store, stored, cache_vars, classifier_vars, conditioning_vars, service_vars>>

\* An entry written with setex reaches its time-to-live.
Expire(key) ==
    /\ key \in DOMAIN store
    /\ key[1] = "transcription:"
    /\ store' = [k \in DOMAIN store \ {key} |-> store[k]]
    /\ stored' = forget({bytes_of(key)})
    /\ UNCHANGED <<redis_up, cache_vars, classifier_vars, conditioning_vars, service_vars>>

\* A stored entry is overwritten by text that is no JSON document.
Corrupt(key) ==
    /\ key \in DOMAIN store
    /\ key[1] = "transcription:"
    /\ store[key].kind = "json"
    /\ store' = [store EXCEPT ![key] = [kind |-> "text", members |-> {}]]
    /\ stored' = forget({bytes_of(key)})
    /\ UNCHANGED <<redis_up, cache_vars, classifier_vars, conditioning_vars, service_vars>>

(***************************************************************************)
(* The cache called directly (test_cache.py, DELETE /cache)                *)
(***************************************************************************)
\* The byte strings and the result dicts the calls are made with.
TestAudio == {"audio-1", "audio-2"}
TestResults ==
    { [transcript |-> <<"t","e","s","t">>, language |-> "en"],
      [transcript |-> <<>>,
       segments |-> << [start |-> 0, end |-> 150, text |-> <<"y","o","u">>,
                        confidence |-> None, filtered_as_hallucination |-> TRUE] >>,
       language |-> "en",
       hallucination_filtered |-> TRUE] }

CallGet(audio_bytes) ==
    /\ cache.kind # "unset"
    /\ last_call' = [op |-> "get", arg |-> Some(audio_bytes),
                     exc |-> cache_get(audio_bytes).exc,
                     entry |-> cache_get(audio_bytes).ret, ok |-> FALSE, deleted |-> 0,
                     faulted |-> get_faulted(audio_bytes),
                     after_fault |-> last_call.faulted \/ last_call.after_fault,
                     recovered |-> last_call.recovered]
    /\ cache' = [cache EXCEPT !._client = client_after_call(get_faulted(audio_bytes))]
    /\ UNCHANGED <<CACHE_ENABLED, reachable_at_init, redis_vars, classifier_vars, conditioning_vars, service_vars>>

CallSet(audio_bytes, value) ==
    /\ cache.kind # "unset"
    /\ LET out == cache_set(audio_bytes, value)
       IN  /\ last_call' = [op |-> "set", arg |-> Some(audio_bytes), exc |-> out.exc,
                            entry |-> None, ok |-> ~out.exc /\ out.ret[1], deleted |-> 0,
                            faulted |-> set_faulted(audio_bytes, value),
                            after_fault |-> last_call.faulted \/ last_call.after_fault,
                            recovered |->
                                IF (last_call.faulted \/ last_call.after_fault)
                                   /\ ~out.exc /\ out.ret[1]
                                THEN Some(audio_bytes) ELSE last_call.recovered]
           /\ store' = IF out.exc THEN store ELSE out.ret[2]
           /\ stored' = IF ~out.exc /\ out.ret[1] THEN remember(audio_bytes, value, None)
                         ELSE stored
    /\ cache' = [cache EXCEPT !._client = client_after_call(set_faulted(audio_bytes, value))]
    /\ UNCHANGED <<CACHE_ENABLED, reachable_at_init, redis_up, classifier_vars, conditioning_vars, service_vars>>

CallClear ==
    /\ cache.kind # "unset"
    /\ LET out == cache_clear
       IN  /\ last_call' = [op |-> "clear", arg |-> None, exc |-> out.exc,
                            entry |-> None, ok |-> FALSE,
                            deleted |-> IF out.exc THEN 0 ELSE out.ret[1],
                            faulted |-> clear_faulted,
                            after_fault |-> last_call.faulted \/ last_call.after_fault,
                            recovered |-> last_call.recovered]
           /\ store' = IF out.exc THEN store ELSE out.ret[2]
           /\ stored' = IF out.exc THEN stored
                         ELSE forget({ b \in DOMAIN stored :
                                        transcription_key(_compute_hash(b)) \notin DOMAIN out.ret[2] })
    /\ cache' = [cache EXCEPT !._client = client_after_call(clear_faulted)]
    /\ UNCHANGED <<CACHE_ENABLED, reachable_at_init, redis_up, classifier_vars, conditioning_vars, service_vars>>

(***************************************************************************)
(* config.py                                                               *)
(***************************************************************************)
\* config.py:39, bytes
MAX_FILE_SIZE == 10485760
\* config.py:40
ALLOWED_AUDIO_FORMATS == { <<"w","a","v">>, <<"m","p","3">>, <<"o","g","g">>, <<"f","l","a","c">> }
\* config.py:25, in milliseconds (0.1 s)
MIN_AUDIO_DURATION == 100
\* config.py:24, in milliseconds (30 s)
MAX_AUDIO_DURATION == 30000

(***************************************************************************)
(* The uploads of the model and what the outside world makes of them:      *)
(* the audio decoders, and the Whisper model's output.  Times are in       *)
(* milliseconds, probabilities and log-probabilities in 1/10000; no value  *)
(* lies on a rounding tie.                                                 *)
(***************************************************************************)
Upload(filename, bytes, size) == [filename |-> filename, bytes |-> bytes, size |-> size]

Uploads ==
    { Upload(<<"s","p","e","e","c","h",".","w","a","v">>, "speech", 88000),
      Upload(<<"t","a","l","k",".","m","p","3">>, "speech", 88000),
      Upload(<<"T","h","a","n","k","s",".","W","A","V">>, "thanks", 57600),
      Upload(<<"s","i","l","e","n","c","e",".","m","p","3">>, "silence", 28800),
      Upload(<<"b","r","o","k","e","n",".","o","g","g">>, "broken", 512),
      Upload(<<"l","e","c","t","u","r","e",".","f","l","a","c">>, "lecture", 992000),
      Upload(<<"n","o","t","e","s",".","t","x","t">>, "speech", 88000),
      Upload(<<>>, "speech", 88000),
      Upload(<<"h","u","g","e",".","w","a","v">>, "huge", 10485761) }

\* sf.read / librosa.load (transcribe.py:432-442) succeed on these bytes
decodable(bytes) == bytes # "broken"

\* len(audio_data) / sample_rate at transcribe.py:628, after conditioning
conditioned_duration(bytes) ==
    CASE bytes = "speech" -> 2760
      [] bytes = "thanks" -> 1800
      [] bytes = "silence" -> 900
      [] bytes = "lecture" -> 31000
      [] OTHER -> 0

\* One faster-whisper Segment.
Segment(start, end, text, avg_logprob, no_speech_prob) ==
    [start |-> start, end |-> end, text |-> text,
     avg_logprob |-> avg_logprob, no_speech_prob |-> no_speech_prob]

\* list(segments_generator) of model.transcribe (transcribe.py:313-324)
whisper_segments(bytes) ==
    CASE bytes = "speech" ->
            << Segment(0, 1280, <<" ","I"," ","f","e","e","l"," ","a","n","x","i","o","u","s">>, -2837, 213),
               Segment(1280, 2756, <<" ","a","b","o","u","t"," ","m","y"," ","w","o","r","k",".">>, -3121, 187) >>
      [] bytes = "thanks" ->
            << Segment(0, 1500, <<" ","T","h","a","n","k","s"," ","f","o","r"," ","w","a","t","c","h","i","n","g","!">>, -4512, 3124) >>
      [] OTHER -> << >>

\* info of model.transcribe; language_probability in 1/10000
whisper_info(bytes) == [language |-> "en", language_probability |-> 9876]

(***************************************************************************)
(* transcribe.py: get_whisper_model, transcribe_audio, preprocess_audio    *)
(***************************************************************************)
\* round(x, 3) of a value given in 1/10000: the result is in 1/1000
round3(x) == (x + 5) \div 10
\* round(t, 2) of a time given in milliseconds: the result is in 1/100 s
round2(t) == (t + 5) \div 10

\* transcribe.py:231-264: <<raised, the value of _whisper_model afterwards>>
\* instances are told apart by their number in order of construction
get_whisper_model_reloading(model_loads) ==
    IF model_loads THEN <<FALSE, Some(constructed + 1)>> ELSE <<TRUE, None>>

get_whisper_model(model_loads) ==
    IF _whisper_model = None
    THEN IF model_loads THEN <<FALSE, Some(constructed + 1)>> ELSE <<TRUE, None>>
    ELSE <<FALSE, _whisper_model>>

\* WhisperModel(...) returned a new instance in this call
constructed_after(model_loads) ==
    IF get_whisper_model(model_loads)[2] \notin {None, _whisper_model}
    THEN constructed + 1 ELSE constructed

\* transcribe.py:331-338
segment_dict(segment) ==
    [start |-> round2(segment.start),
     end |-> round2(segment.end),
     text |-> strip(segment.text),
     confidence |-> Some(round3(segment.avg_logprob)),
     no_speech_prob |-> Some(round3(segment.no_speech_prob)),
     avg_logprob |-> Some(round3(segment.avg_logprob))]

\* transcribe.py:357-358: seg["filtered_as_hallucination"] = True
mark_filtered(seg) == [filtered_as_hallucination |-> TRUE] @@ seg

\* Mutant of suppress: the flagged segments are dropped.
suppress_drops_segments(hallucinated, transcript, segments) ==
    IF hallucinated
    THEN [transcript |-> <<>>, segments |-> <<>>]
    ELSE [transcript |-> transcript, segments |-> segments]

\* Mutant of suppress: the flagged transcript is kept.
suppress_keeps_transcript(hallucinated, transcript, segments) ==
    IF hallucinated
    THEN [transcript |-> transcript,
          segments |-> [i \in 1..Len(segments) |-> mark_filtered(segments[i])]]
    ELSE [transcript |-> transcript, segments |-> segments]

\* transcribe.py:349-358: what a positive verdict does to transcript and segments
suppress(hallucinated, transcript, segments) ==
    IF hallucinated
    THEN [transcript |-> <<>>,
          segments |-> [i \in 1..Len(segments) |-> mark_filtered(segments[i])]]
    ELSE [transcript |-> transcript, segments |-> segments]

\* transcribe.py:327-379: the result dict for the model's output on audio of
\* audio_duration milliseconds.  The wall-clock measurements are not told apart.
build_result(model_segments, info, audio_duration) ==
    LET segments == [i \in 1..Len(model_segments) |-> segment_dict(model_segments[i])]
        transcript_parts == [i \in 1..Len(model_segments) |-> strip(model_segments[i].text)]
        transcript == strip(join(<<" ">>, transcript_parts))
        verdict == is_hallucination(transcript, segments, audio_duration)
        hallucinated == verdict[1]
        reason == verdict[2]
        kept == suppress(hallucinated, transcript, segments)
        result_dict == [transcript |-> kept.transcript,
                   segments |-> kept.segments,
                   language |-> info.language,
                   language_probability |-> round3(info.language_probability),
                   audio_duration |-> round2(audio_duration),
                   processing_time |-> [transcribe |-> "elapsed", total |-> "elapsed"],
                   real_time_factor |-> "elapsed/duration",
                   hallucination_filtered |-> hallucinated]
    IN  IF hallucinated THEN [hallucination_reason |-> reason] @@ result_dict ELSE result_dict

\* transcribe.py:267-392.  fault says what goes wrong inside: "load" (the model
\* cannot be loaded), "transcribe" (model.transcribe or its generator raises)
\* or "none".  Every exception leaves as RuntimeError.
transcribe_audio(audio, fault) ==
    IF get_whisper_model(fault # "load")[1] THEN [exc |-> "RuntimeError", ret |-> None]
    ELSE IF fault = "transcribe" THEN [exc |-> "RuntimeError", ret |-> None]
    ELSE [exc |-> "none",
          ret |-> Some(build_result(whisper_segments(audio.bytes),
                                    whisper_info(audio.bytes),
                                    audio.duration))]

\* transcribe.py:423-656: the body of preprocess_audio's try block
preprocess_audio_body(bytes) ==
    IF ~decodable(bytes) THEN [exc |-> "Exception", ret |-> None]
    ELSE IF conditioned_duration(bytes) < MIN_AUDIO_DURATION
        THEN [exc |-> "ValueError", ret |-> None]
    ELSE IF conditioned_duration(bytes) > MAX_AUDIO_DURATION
        THEN [exc |-> "ValueError", ret |-> None]
    ELSE [exc |-> "none",
          ret |-> Some([bytes |-> bytes, duration |-> conditioned_duration(bytes)])]

\* Mutant of preprocess_audio: a decoder error leaves as it was raised.
preprocess_audio_unwrapped(bytes) == preprocess_audio_body(bytes)

\* transcribe.py:395-667: every exception leaves as ValueError (658-667)
preprocess_audio(bytes) ==
    LET body == preprocess_audio_body(bytes)
    IN  IF body.exc = "Exception" THEN [exc |-> "ValueError", ret |-> None] ELSE body

(***************************************************************************)
(* main.py: POST /transcribe                                               *)
(***************************************************************************)
\* audio.filename.split(".")[-1].lower()
file_ext(filename) ==
    LET dots == { i \in 1..Len(filename) : filename[i] = "." }
    IN  lower(SubSeq(filename, IF dots = {} THEN 1 ELSE SetMax(dots) + 1, Len(filename)))

HTTPException(status_code, detail) == [status_code |-> status_code, detail |-> detail]
OK(body) == [status_code |-> 200, body |-> body]

\* main.py:266-283: the except clauses, for an exception that is no HTTPException
on_exception(exc) ==
    IF exc = "ValueError"
    THEN [status |-> "validation_error", response |-> HTTPException(400, "str(e)")]
    ELSE [status |-> "error", response |-> HTTPException(500, "Transcription failed")]

\* Mutant of truthy: the entry found is not returned.
truthy_never(value) == FALSE

\* main.py:230 `if cached_result:` for an Optional[dict]
truthy(value) == value # None /\ DOMAIN ValueOf(value) # {}

MaxRequests == 2

\* main.py:27-31 the label pairs of transcription_requests_total
StatusLabels == {"success", "error", "validation_error"}
Labels == [status : StatusLabels, cached : {"True", "False"}]

\* str(cached) (main.py:288)
str(flag) == IF flag THEN "True" ELSE "False"

\* Counter.labels(...).inc()
inc(counter, label) == [counter EXCEPT ![label] = @ + 1]

RECURSIVE sum_over(_, _)
sum_over(counter, labels) ==
    IF labels = {} THEN 0
    ELSE LET label == CHOOSE l \in labels : TRUE
         IN  counter[label] + sum_over(counter, labels \ {label})

\* main.py:356 the number of requests recorded, all labels together
total(counter) == sum_over(counter, DOMAIN counter)

\* main.py:27-49: the metrics as they are when the module is imported
MetricsZero ==
    /\ active_requests = 0
    /\ transcription_requests_total = [label \in Labels |-> 0]

\* No request is being handled.
HandlerIdle ==
    /\ upload = None
    /\ status = "unset"
    /\ cached = FALSE
    /\ cached_result = None
    /\ audio_data = None
    /\ result = None
    /\ response = None
    /\ calls = <<>>
    /\ failure = "none"

\* The service is not running.
ServiceNotStarted ==
    /\ pc = "boot"
    /\ _whisper_model = None
    /\ constructed = 0
    /\ MetricsZero
    /\ HandlerIdle

\* main.py:111-133: the model is preloaded; a failure is logged and ignored
startup_event(model_loads) ==
    /\ pc = "boot"
    /\ cache.kind # "unset"
    /\ _whisper_model' = get_whisper_model(model_loads)[2]
    /\ constructed' = constructed_after(model_loads)
    /\ pc' = "idle"
    /\ UNCHANGED <<handler_vars, redis_vars, cache_vars, classifier_vars, conditioning_vars, metrics_vars>>

\* main.py:146-168 /health: get_whisper_model(), 503 when it raises.  The
\* handlers are coroutines of one event loop and get_whisper_model does not
\* await, so a health check runs between requests or while a /transcribe
\* request waits for its body (main.py:216).
health(model_loads) ==
    /\ pc \in {"idle", "read"}
    /\ _whisper_model' = get_whisper_model(model_loads)[2]
    /\ constructed' = constructed_after(model_loads)
    /\ UNCHANGED <<pc, handler_vars, redis_vars, cache_vars, classifier_vars, conditioning_vars, metrics_vars>>

\* main.py:193 verify_api_key raises before anything else happens
Unauthorized(u) ==
    /\ pc = "idle"
    /\ upload' = Some(u)
    /\ response' = Some(HTTPException(401, "Invalid API key"))
    /\ pc' = "responded"
    /\ UNCHANGED <<status, cached, cached_result, audio_data, result, calls, failure,
                   _whisper_model, constructed, redis_vars, cache_vars, classifier_vars, conditioning_vars, metrics_vars>>

\* main.py:193-213: the request is accepted and its file name validated
Receive(u) ==
    /\ pc = "idle"
    /\ total(transcription_requests_total) < MaxRequests
    /\ upload' = Some(u)
    /\ active_requests' = active_requests + 1
    /\ status' = "error"
    /\ cached' = FALSE
    /\ IF u.filename = <<>>
       THEN /\ response' = Some(HTTPException(400, "No filename provided"))
            /\ pc' = "responded"
       ELSE IF file_ext(u.filename) \notin ALLOWED_AUDIO_FORMATS
       THEN /\ response' = Some(HTTPException(400, "Unsupported audio format"))
            /\ pc' = "responded"
       ELSE /\ response' = None
            /\ pc' = "read"
    /\ UNCHANGED <<cached_result, audio_data, result, calls, failure, transcription_requests_total,
                   _whisper_model, constructed, redis_vars, cache_vars, classifier_vars, conditioning_vars>>

\* main.py:216-226: the body is read and its size validated
ReadUpload ==
    /\ pc = "read"
    /\ IF ValueOf(upload).size > MAX_FILE_SIZE
       THEN /\ response' = Some(HTTPException(413, "File too large"))
            /\ pc' = "responded"
       ELSE /\ response' = None
            /\ pc' = "lookup"
    /\ UNCHANGED <<upload, status, cached, cached_result, audio_data, result, calls,
                   failure, _whisper_model, constructed, redis_vars, cache_vars, classifier_vars, conditioning_vars, metrics_vars>>

\* main.py:229-236: cache.get; a hit is returned at once
Lookup ==
    /\ pc = "lookup"
    /\ LET audio_bytes == ValueOf(upload).bytes
           found == cache_get(audio_bytes)
       IN  /\ calls' = Append(calls, [fn |-> "cache.get",
                                      failed |-> cache_failed_get(audio_bytes)])
           /\ IF found.exc
              THEN /\ cached_result' = None
                   /\ cached' = cached
                   /\ status' = on_exception("Exception").status
                   /\ response' = Some(on_exception("Exception").response)
                   /\ pc' = "responded"
              ELSE /\ cached_result' = found.ret
                   /\ status' = status
                   /\ IF truthy(found.ret)
                      THEN /\ cached' = TRUE
                           /\ response' = Some(OK(ValueOf(found.ret)))
                           /\ pc' = "responded"
                      ELSE /\ cached' = cached
                           /\ response' = None
                           /\ pc' = "preprocess"
    /\ cache' = [cache EXCEPT !._client =
                    client_after_call(get_faulted(ValueOf(upload).bytes))]
    /\ UNCHANGED <<upload, audio_data, result, failure, _whisper_model, constructed, redis_vars,
                   CACHE_ENABLED, reachable_at_init, last_call, classifier_vars, conditioning_vars, metrics_vars>>

\* main.py:239-240 with the except clause of 270-274
Preprocess ==
    /\ pc = "preprocess"
    /\ LET out == preprocess_audio(ValueOf(upload).bytes)
       IN  /\ calls' = Append(calls, [fn |-> "preprocess_audio", failed |-> out.exc # "none"])
           /\ audio_data' = out.ret
           /\ IF out.exc = "none"
              THEN /\ pc' = "transcribe"
                   /\ UNCHANGED <<status, response, failure>>
              ELSE /\ failure' = "preprocess_audio"
                   /\ status' = on_exception(out.exc).status
                   /\ response' = Some(on_exception(out.exc).response)
                   /\ pc' = "responded"
    /\ UNCHANGED <<upload, cached, cached_result, result,
                   _whisper_model, constructed, redis_vars, cache_vars, classifier_vars, conditioning_vars, metrics_vars>>

\* main.py:243 with the except clause of 276-283
Transcribe(fault) ==
    /\ pc = "transcribe"
    /\ fault = "load" => _whisper_model = None
    /\ LET out == transcribe_audio(ValueOf(audio_data), fault)
       IN  /\ calls' = Append(calls, [fn |-> "transcribe_audio", failed |-> out.exc # "none"])
           /\ _whisper_model' = get_whisper_model(fault # "load")[2]
           /\ constructed' = constructed_after(fault # "load")
           /\ result' = out.ret
           /\ IF out.exc = "none"
              THEN /\ pc' = "store"
                   /\ UNCHANGED <<status, response, failure>>
              ELSE /\ failure' = fault
                   /\ status' = on_exception(out.exc).status
                   /\ response' = Some(on_exception(out.exc).response)
                   /\ pc' = "responded"
    /\ UNCHANGED <<upload, cached, cached_result, audio_data,
                   redis_vars, cache_vars, classifier_vars, conditioning_vars, metrics_vars>>

\* main.py:246: cache.set(audio_bytes, result), its return value unused
Store ==
    /\ pc = "store"
    /\ LET audio_bytes == ValueOf(upload).bytes
           out == cache_set(audio_bytes, ValueOf(result))
       IN  /\ calls' = Append(calls, [fn |-> "cache.set",
                                      failed |-> cache_failed_set(audio_bytes, ValueOf(result))])
           /\ IF out.exc
              THEN /\ status' = on_exception("Exception").status
                   /\ response' = Some(on_exception("Exception").response)
                   /\ pc' = "responded"
                   /\ store' = store
              ELSE /\ pc' = "finish"
                   /\ store' = out.ret[2]
                   /\ UNCHANGED <<status, response>>
           /\ stored' = IF ~out.exc /\ out.ret[1]
                         THEN remember(audio_bytes, ValueOf(result), Some(ValueOf(upload).filename))
                         ELSE stored
    /\ cache' = [cache EXCEPT !._client =
                    client_after_call(set_faulted(ValueOf(upload).bytes, ValueOf(result)))]
    /\ UNCHANGED <<upload, cached, cached_result, audio_data, result, failure,
                   _whisper_model, constructed, redis_up, CACHE_ENABLED, reachable_at_init, last_call,
                   classifier_vars, conditioning_vars, metrics_vars>>

\* main.py:249-250: result["total_processing_time"] = round(total_time, 3)
add_processing_metadata(value) == [total_processing_time |-> "elapsed"] @@ value

\* main.py:249-264: the wall-clock time is attached and the result returned
Finish ==
    /\ pc = "finish"
    /\ result' = Some(add_processing_metadata(ValueOf(result)))
    /\ status' = "success"
    /\ response' = Some(OK(add_processing_metadata(ValueOf(result))))
    /\ pc' = "responded"
    /\ UNCHANGED <<upload, cached, cached_result, audio_data, calls, failure,
                   _whisper_model, constructed, redis_vars, cache_vars, classifier_vars, conditioning_vars, metrics_vars>>

\* main.py:285-288 the finally clause of the try that starts at line 202: a
\* request rejected by verify_api_key (193) never entered it
finally_clause ==
    IF status = "unset"
    THEN UNCHANGED metrics_vars
    ELSE /\ active_requests' = active_requests - 1
         /\ transcription_requests_total' =
                inc(transcription_requests_total, [status |-> status, cached |-> str(cached)])

\* The handler is left: the finally clause runs, the response is sent and the
\* handler's frame is gone.
Done ==
    /\ pc = "responded"
    /\ finally_clause
    /\ pc' = "idle"
    /\ upload' = None
    /\ status' = "unset"
    /\ cached' = FALSE
    /\ cached_result' = None
    /\ audio_data' = None
    /\ result' = None
    /\ response' = None
    /\ calls' = <<>>
    /\ failure' = "none"
    /\ UNCHANGED <<_whisper_model, constructed, redis_vars, cache_vars, classifier_vars, conditioning_vars>>

\* main.py:291-319: DELETE /cache
clear_cache ==
    /\ pc = "idle"
    /\ LET out == cache_clear
       IN  /\ store' = IF out.exc THEN store ELSE out.ret[2]
           /\ stored' = IF out.exc THEN stored
                         ELSE forget({ b \in DOMAIN stored :
                                        transcription_key(_compute_hash(b)) \notin DOMAIN out.ret[2] })
    /\ cache' = [cache EXCEPT !._client = client_after_call(clear_faulted)]
    /\ UNCHANGED <<CACHE_ENABLED, reachable_at_init, last_call, redis_up,
                   classifier_vars, conditioning_vars, service_vars>>


(***************************************************************************)
(* transcribe.py: preprocess_audio, stage by stage                         *)
(*                                                                         *)
(* A signal is described by its array shape, its sample rate and its peak  *)
(* absolute amplitude.  Amplitudes are in units of 1/32767 (one int16      *)
(* step), durations are compared in milliseconds.  What the libraries      *)
(* outside the repository do (whether a stage raises, which frames the     *)
(* voice-activity detector calls speech, the amplitude a filter leaves) is *)
(* chosen by the environment; samples are taken to be finite numbers.      *)
(***************************************************************************)
TARGET_SR == 16000
FRAME_DURATION_MS == 30
FULL_SCALE == 32767
RMS_PEAK_LIMIT == 31128

\* What the two decoders make of a file: soundfile answers (frames, channels),
\* librosa.load(mono=False) answers (channels, frames), both answer (frames,)
\* for one channel; "none" is a file neither can read.
Clip(decoder, channels, frames, sample_rate) ==
    [decoder |-> decoder, channels |-> channels, frames |-> frames,
     sample_rate |-> sample_rate]

decoded_shape(clip) ==
    IF clip.channels = 1 THEN <<clip.frames>>
    ELSE IF clip.decoder = "soundfile" THEN <<clip.frames, clip.channels>>
    ELSE <<clip.channels, clip.frames>>

\* transcribe.py:445-451, on the shape
to_mono(shape) ==
    IF Len(shape) > 1
    THEN IF shape[1] = 2 THEN <<shape[2]>>
         ELSE IF shape[2] = 2 THEN <<shape[1]>>
         ELSE shape
    ELSE shape

\* np.squeeze: axes of length one are dropped
squeeze(shape) == SelectSeq(shape, LAMBDA d : d # 1)

\* len(audio_data)
len(shape) == shape[1]

\* librosa.resample along the last axis: ceil(n * target_sr / orig_sr) samples
resampled_length(n, orig_sr) == (n * TARGET_SR + orig_sr - 1) \div orig_sr

resample(shape, orig_sr) ==
    [shape EXCEPT ![Len(shape)] = resampled_length(shape[Len(shape)], orig_sr)]

\* if sample_rate != 16000: audio_data = librosa.resample(...)
to_target_rate(shape, sample_rate) ==
    IF sample_rate # TARGET_SR THEN resample(shape, sample_rate) ELSE shape

\* frame_size = int(sample_rate * frame_duration_ms / 1000)
frame_size(sample_rate) == (sample_rate * FRAME_DURATION_MS) \div 1000

\* the number of values of range(0, len(audio_int16) - frame_size, frame_size)
total_frames(n, size) ==
    IF n - size <= 0 THEN 0 ELSE (n - size + size - 1) \div size

\* np.concatenate(voice_frames) of k frames
voiced_shape(shape, k, size) == [shape EXCEPT ![1] = k * size]

\* transcribe.py:588-600: the voiced frames when there are any, else the
\* signal as it was
gated_shape_voiced_only(shape, k, size) == voiced_shape(shape, k, size)

gated_shape(shape, k, size) ==
    IF k > 0 THEN voiced_shape(shape, k, size) ELSE shape

\* duration = len(audio_data) / sample_rate against the configured bounds
too_short(shape, sample_rate) == len(shape) * 1000 < MIN_AUDIO_DURATION * sample_rate
too_long(shape, sample_rate) == len(shape) * 1000 > MAX_AUDIO_DURATION * sample_rate

\* audio_data / max_abs when max_abs > 0
normalize_never(peak) == peak
normalize(peak) == IF peak > 0 THEN FULL_SCALE ELSE peak

\* The amplitudes a stage may leave: silence, half scale, and -32768 / 32767,
\* the largest value the int16 round trip of the voice-activity stage gives.
Peaks == {0, 16384, 32768}

ConditioningIdle ==
    /\ p_pc = "idle"
    /\ p_clip = Clip("none", 1, 0, TARGET_SR)
    /\ p_shape = <<0>>
    /\ p_sample_rate = TARGET_SR
    /\ p_peak = 0
    /\ p_error = ""
    /\ p_skipped = 0
    /\ p_vad = "pending"

other_vars == <<classifier_vars, redis_vars, cache_vars, service_vars>>

\* transcribe.py:432-442  sf.read, then librosa.load; neither reads the file:
\* the exception reaches the outer handler, which raises ValueError (661-667)
Decode ==
    /\ p_pc = "decode"
    /\ IF p_clip.decoder = "none"
       THEN /\ p_pc' = "raised"
            /\ p_error' = "Failed to process audio file"
            /\ UNCHANGED <<p_shape, p_sample_rate>>
       ELSE /\ p_pc' = "mono"
            /\ p_shape' = decoded_shape(p_clip)
            /\ p_sample_rate' = p_clip.sample_rate
            /\ UNCHANGED p_error
    /\ UNCHANGED <<p_clip, p_peak, p_skipped, p_vad, other_vars>>

\* transcribe.py:445-454
Mono ==
    /\ p_pc = "mono"
    /\ p_shape' = squeeze(to_mono(p_shape))
    /\ p_pc' = "noise"
    /\ UNCHANGED <<p_clip, p_sample_rate, p_peak, p_error, p_skipped, p_vad, other_vars>>

\* transcribe.py:471-521  noise reduction, Wiener filter, high-pass filter: each
\* either gives a signal of the same shape or raises and is skipped
Filter(stage, then, raises, peak) ==
    /\ p_pc = stage
    /\ stage \in {"noise", "wiener", "highpass"}
    /\ IF raises
       THEN /\ p_skipped' = p_skipped + 1
            /\ UNCHANGED p_peak
       ELSE /\ p_peak' = peak
            /\ UNCHANGED p_skipped
    /\ p_pc' = then
    /\ UNCHANGED <<p_clip, p_shape, p_sample_rate, p_error, p_vad, other_vars>>

\* transcribe.py:528-545  RMS normalisation: a signal loud enough is scaled,
\* and scaled again to a peak of 0.95 when it came out above that
Compress(raises, loud, peak) ==
    /\ p_pc = "rms"
    /\ IF raises
       THEN /\ p_skipped' = p_skipped + 1
            /\ UNCHANGED p_peak
       ELSE /\ p_peak' = IF loud /\ p_peak > 0 THEN peak ELSE p_peak
            /\ peak > 0 /\ peak <= RMS_PEAK_LIMIT
            /\ UNCHANGED p_skipped
    /\ p_pc' = "vad"
    /\ UNCHANGED <<p_clip, p_shape, p_sample_rate, p_error, p_vad, other_vars>>

\* transcribe.py:556-603  the detector cannot be built or the resampling raises:
\* nothing has changed
VadFails ==
    /\ p_pc = "vad"
    /\ p_vad' = "failed"
    /\ p_pc' = "final"
    /\ UNCHANGED <<p_clip, p_shape, p_sample_rate, p_peak, p_error, p_skipped, other_vars>>

\* is_speech raises on a frame: the signal stays resampled (560-562), the
\* frames are not taken out
VadFailsOnFrame ==
    /\ p_pc = "vad"
    /\ total_frames(len(to_target_rate(p_shape, p_sample_rate)), frame_size(TARGET_SR)) > 0
    /\ p_shape' = to_target_rate(p_shape, p_sample_rate)
    /\ p_sample_rate' = TARGET_SR
    /\ p_vad' = "failed"
    /\ p_pc' = "final"
    /\ UNCHANGED <<p_clip, p_peak, p_error, p_skipped, other_vars>>

\* the detector calls k of the frames speech: with k > 0 the signal becomes
\* those frames (588-590), with k = 0 it is kept (598-600)
Vad(k, peak) ==
    /\ p_pc = "vad"
    /\ LET shape == to_target_rate(p_shape, p_sample_rate)
           size == frame_size(TARGET_SR)
       IN  /\ k \in 0..total_frames(len(shape), size)
           /\ p_shape' = gated_shape(shape, k, size)
           /\ IF k > 0
              THEN /\ p_peak' = peak
                   /\ p_vad' = "voiced"
              ELSE /\ p_peak' = p_peak
                   /\ p_vad' = "silent"
    /\ p_sample_rate' = TARGET_SR
    /\ p_pc' = "final"
    /\ UNCHANGED <<p_clip, p_error, p_skipped, other_vars>>

\* transcribe.py:610-656  resample, normalise, validate the duration
Final ==
    /\ p_pc = "final"
    /\ LET shape == to_target_rate(p_shape, p_sample_rate)
       IN  /\ p_shape' = shape
           /\ p_sample_rate' = TARGET_SR
           /\ p_peak' = normalize(p_peak)
           /\ IF too_short(shape, TARGET_SR)
              THEN p_pc' = "raised" /\ p_error' = "Audio too short"
              ELSE IF too_long(shape, TARGET_SR)
              THEN p_pc' = "raised" /\ p_error' = "Audio too long"
              ELSE p_pc' = "returned" /\ p_error' = ""
    /\ UNCHANGED <<p_clip, p_skipped, p_vad, other_vars>>
(***************************************************************************)
(* Specifications                                                          *)
(***************************************************************************)
\* is_hallucination called on its own
InitClassify ==
    /\ CacheNotBuilt
    /\ CACHE_ENABLED = FALSE
    /\ redis_up = FALSE
    /\ ServiceNotStarted
    /\ ConditioningIdle
    /\ h_pc = "call"
    /\ h_transcript \in TestTranscripts
    /\ h_segments \in TestSegmentLists
    /\ h_duration \in TestDurations
    /\ h_result = <<FALSE, <<>>>>

Classify ==
    /\ h_pc = "call"
    /\ h_result' = is_hallucination(h_transcript, h_segments, h_duration)
    /\ h_pc' = "returned"
    /\ UNCHANGED <<h_transcript, h_segments, h_duration, redis_vars, cache_vars, service_vars,
                   conditioning_vars>>

NextClassify == Classify

SpecClassify == InitClassify /\ [][NextClassify]_vars

\* The cache called directly
InitCache ==
    /\ CacheNotBuilt
    /\ CACHE_ENABLED \in BOOLEAN
    /\ redis_up \in BOOLEAN
    /\ ClassifierIdle
    /\ ServiceNotStarted
    /\ ConditioningIdle

NextCache ==
    \/ get_cache
    \/ RedisDown
    \/ RedisUp
    \/ \E key \in DOMAIN store : Expire(key)
    \/ \E key \in DOMAIN store : Corrupt(key)
    \/ \E audio_bytes \in TestAudio : CallGet(audio_bytes)
    \/ \E audio_bytes \in TestAudio, value \in TestResults : CallSet(audio_bytes, value)
    \/ CallClear

SpecCache == InitCache /\ [][NextCache]_vars

\* The service
Faults == {"none", "load", "transcribe"}

Init ==
    /\ CacheNotBuilt
    /\ CACHE_ENABLED \in BOOLEAN
    /\ redis_up \in BOOLEAN
    /\ ClassifierIdle
    /\ ServiceNotStarted
    /\ ConditioningIdle

Next ==
    \/ get_cache
    \/ \E model_loads \in BOOLEAN : startup_event(model_loads)
    \/ \E model_loads \in BOOLEAN : health(model_loads)
    \/ \E u \in Uploads : Unauthorized(u)
    \/ \E u \in Uploads : Receive(u)
    \/ ReadUpload
    \/ Lookup
    \/ Preprocess
    \/ \E fault \in Faults : Transcribe(fault)
    \/ Store
    \/ Finish
    \/ Done
    \/ clear_cache
    \/ RedisDown
    \/ RedisUp
    \/ \E key \in DOMAIN store : Expire(key)
    \/ \E key \in DOMAIN store : Corrupt(key)

Spec == Init /\ [][Next]_vars


\* preprocess_audio called on its own
MaxChannels == 3
MaxFrames == 1166

TestClips ==
    { Clip("none", 1, 0, TARGET_SR) }
    \cup { Clip("soundfile", 1, n, TARGET_SR) :
             n \in {800, 1599, 1600, 1920, 32000, 480000, 480001, 560000} }
    \cup { Clip("soundfile", 1, 44100, 22050) }
    \cup { Clip(d, c, 32000, TARGET_SR) : d \in {"soundfile", "librosa"}, c \in 2..MaxChannels }

InitPreprocess ==
    /\ CacheNotBuilt
    /\ CACHE_ENABLED = FALSE
    /\ redis_up = FALSE
    /\ ClassifierIdle
    /\ ServiceNotStarted
    /\ p_pc = "decode"
    /\ p_clip \in TestClips
    /\ p_shape = <<0>>
    /\ p_sample_rate = TARGET_SR
    /\ p_peak \in {0, 16384}
    /\ p_error = ""
    /\ p_skipped = 0
    /\ p_vad = "pending"

NextPreprocess ==
    \/ Decode
    \/ Mono
    \/ \E raises \in BOOLEAN, peak \in Peaks : Filter("noise", "wiener", raises, peak)
    \/ \E raises \in BOOLEAN, peak \in Peaks : Filter("wiener", "highpass", raises, peak)
    \/ \E raises \in BOOLEAN, peak \in Peaks : Filter("highpass", "rms", raises, peak)
    \/ \E raises \in BOOLEAN, loud \in BOOLEAN, peak \in Peaks : Compress(raises, loud, peak)
    \/ VadFails
    \/ VadFailsOnFrame
    \/ \E k \in 0..MaxFrames, peak \in Peaks : Vad(k, peak)
    \/ Final

SpecPreprocess == InitPreprocess /\ [][NextPreprocess]_vars

(***************************************************************************)
(* Claims about is_hallucination (checked under SpecClassify)              *)
(***************************************************************************)
Returned == h_pc = "returned"

\* The transcript is empty or holds only whitespace.
WhitespaceOnly(t) == \A i \in 1..Len(t) : IsSpace(t[i])

\* C1: an empty or whitespace-only transcript is never reported as a
\* hallucination: is_hallucination returns (false, "") for every segment list
\* and every duration, also when the segments' mean no-speech probability is
\* above 0.6 or their mean log-probability below -1.0.
C1_BlankIsNotHallucination ==
    (Returned /\ WhitespaceOnly(h_transcript)) => h_result = <<FALSE, <<>>>>

\* C1's case: a whitespace-only, non-empty transcript whose segments alone
\* would trip the no-speech rule was classified.
C1_Witness ==
    /\ Returned
    /\ h_transcript # <<>>
    /\ WhitespaceOnly(h_transcript)
    /\ high_no_speech_prob(h_segments)
    /\ h_result = <<FALSE, <<>>>>

\* The rules of C2, each stated from the claim's words.
C2_KnownPhrase(normalized) == normalized \in HALLUCINATION_PHRASES
C2_KnownSubstring(normalized) ==
    \E i \in 1..Len(HALLUCINATION_SUBSTRINGS) :
        IsSubstring(HALLUCINATION_SUBSTRINGS[i], normalized)
C2_MeanNoSpeechHigh(probs) == probs # <<>> /\ Sum(probs) > 600 * Len(probs)
C2_MeanLogProbLow(logprobs, duration) ==
    logprobs # <<>> /\ Sum(logprobs) < (-1000) * Len(logprobs) /\ duration < 3000
C2_TooManyWords(word_count, duration) == duration < 1500 /\ word_count > 8
C2_Compressible(words) ==
    Len(words) > 3 /\ Len(words) > 3 * Cardinality(Range(words))
C2_BigramRepeats(words) ==
    Len(words) >= 4 /\
        \E i \in 1..(Len(words) - 1) :
            Cardinality({ j \in 1..(Len(words) - 1) :
                words[j] = words[i] /\ words[j+1] = words[i+1] }) >= 3

\* The number (1..8, in the claim's order) of the first rule that holds of a
\* call's arguments, 0 when none does.
C2_FirstRuleOf(transcript, segments, duration) ==
    LET normalized == _normalize_text(transcript)
        words == split(lower(transcript))
    IN  IF WhitespaceOnly(transcript) THEN 1
        ELSE IF C2_KnownPhrase(normalized) THEN 2
        ELSE IF C2_KnownSubstring(normalized) THEN 3
        ELSE IF C2_MeanNoSpeechHigh(populated(segments, "no_speech_prob")) THEN 4
        ELSE IF C2_MeanLogProbLow(populated(segments, "avg_logprob"), duration) THEN 5
        ELSE IF C2_TooManyWords(Len(split(transcript)), duration) THEN 6
        ELSE IF C2_Compressible(words) THEN 7
        ELSE IF C2_BigramRepeats(words) THEN 8
        ELSE 0

\* The name each rule gives its reason (the text before the first colon).
C2_RuleName ==
    << <<>>,
       <<"e","x","a","c","t","_","m","a","t","c","h">>,
       <<"s","u","b","s","t","r","i","n","g","_","m","a","t","c","h">>,
       <<"h","i","g","h","_","n","o","_","s","p","e","e","c","h","_","p","r","o","b">>,
       <<"l","o","w","_","c","o","n","f","i","d","e","n","c","e","_","s","h","o","r","t","_",
         "a","u","d","i","o">>,
       <<"d","u","r","a","t","i","o","n","_","m","i","s","m","a","t","c","h">>,
       <<"h","i","g","h","_","c","o","m","p","r","e","s","s","i","o","n","_","r","a","t","i","o">>,
       <<"r","e","p","e","a","t","e","d","_","p","h","r","a","s","e">> >>

\* The text of a reason before its first colon (the whole reason if it has none).
ReasonName(reason) ==
    LET colons == { i \in 1..Len(reason) : reason[i] = ":" }
    IN  IF colons = {} THEN reason ELSE SubSeq(reason, 1, SetMin(colons) - 1)

OneWordRepeated(t) ==
    LET ws == split(t)
    IN  Len(ws) >= 4 /\ \A i \in 1..Len(ws) : ws[i] = ws[1]

\* C3 (as claimed): a transcript made of one word repeated four or more times,
\* with no segments, is flagged with a reason that contains "repeated_phrase".
C3_RepeatedWordReason ==
    (Returned /\ OneWordRepeated(h_transcript) /\ h_segments = <<>>) =>
        /\ h_result[1] = TRUE
        /\ IsSubstring(<<"r","e","p","e","a","t","e","d","_","p","h","r","a","s","e">>,
                       h_result[2])

\* C4 (as claimed): when the normalized transcript is a known phrase p, the
\* reason is exactly "exact_match:" immediately followed by p.
C4_ExactReasonBare ==
    (Returned /\ _normalize_text(h_transcript) \in HALLUCINATION_PHRASES) =>
        h_result = <<TRUE, <<"e","x","a","c","t","_","m","a","t","c","h",":">>
                                \o _normalize_text(h_transcript)>>

\* C4 (amended): when the normalized transcript is a known phrase p, the
\* result is true and the reason is exactly "exact_match: '" followed by p
\* and a closing "'": the phrase is quoted and a space follows the colon.
C4_ExactReasonQuoted ==
    (Returned /\ _normalize_text(h_transcript) \in HALLUCINATION_PHRASES) =>
        h_result = <<TRUE, <<"e","x","a","c","t","_","m","a","t","c","h",":"," ","'">>
                                \o _normalize_text(h_transcript) \o <<"'">> >>

\* C4's case: "thanks for watching", 2.0 s, no segments, was classified as
\* an exact match.
C4_Witness ==
    /\ Returned
    /\ h_transcript = <<"t","h","a","n","k","s"," ","f","o","r"," ",
                        "w","a","t","c","h","i","n","g">>
    /\ h_duration = 2000
    /\ h_segments = <<>>
    /\ h_result[1] = TRUE
    /\ ReasonName(h_result[2]) = C2_RuleName[2]


(***************************************************************************)
(* Claims about the cache                                                  *)
(***************************************************************************)
\* The cache object cannot reach the backing store: it is a NoOpCache, or a
\* RedisCache built while the store was unreachable.
InertCache ==
    \/ cache.kind = "NoOpCache"
    \/ cache.kind = "RedisCache" /\ reachable_at_init = Some(FALSE)

\* What a call returns when it does nothing: get None, set False, clear 0.
InertReturn ==
    /\ ~last_call.exc
    /\ last_call.op = "get" => last_call.entry = None
    /\ last_call.op = "set" => last_call.ok = FALSE
    /\ last_call.op = "clear" => last_call.deleted = 0

\* C9: on a NoOpCache, or a RedisCache constructed while the backing store was
\* unreachable, every get returns None, every set returns False, every clear
\* returns 0 and no call raises, whatever was called before and whether or
\* not the store has become reachable since.
C9_InertCacheStaysInert ==
    (InertCache /\ last_call.op # "none") => InertReturn

\* A RedisCache built while the store was down is asked to set after the
\* store has come back, and returns False.
C9_Witness ==
    /\ cache.kind = "RedisCache"
    /\ reachable_at_init = Some(FALSE)
    /\ redis_up
    /\ last_call.op = "set"
    /\ last_call.ok = FALSE

\* C10: on an active RedisCache, an error raised by the backing store or by
\* decoding a stored value during get, set or clear is caught inside the call:
\* the call returns None, False or 0 and raises nothing.
C10_ErrorsAreCaught ==
    (cache.kind = "RedisCache" /\ cache._client # None /\ last_call.faulted)
        => InertReturn

\* An active RedisCache read a value that is no JSON document from a
\* reachable store: the decoding raised inside get.
C10_Witness ==
    /\ cache.kind = "RedisCache"
    /\ cache._client # None
    /\ redis_up
    /\ last_call.op = "get"
    /\ last_call.faulted
    /\ last_call.entry = None

(***************************************************************************)
(* Claims about transcribe_audio and POST /transcribe                      *)
(***************************************************************************)
\* The segments the model produced for the request being handled.
Produced == whisper_segments(ValueOf(upload).bytes)

\* The transcript and the verdict of the classifier for those segments.
ClassifiedTranscript ==
    strip(join(<<" ">>, [i \in 1..Len(Produced) |-> strip(Produced[i].text)]))
Verdict ==
    is_hallucination(ClassifiedTranscript,
                     [i \in 1..Len(Produced) |-> segment_dict(Produced[i])],
                     ValueOf(audio_data).duration)

\* hundredths is the multiple of 0.01 nearest to a value given in 1/1000.
NearestHundredth(hundredths, thousandths) ==
    (hundredths * 10 - thousandths) \in -5..5
\* thousandths is the multiple of 0.001 nearest to a value given in 1/10000.
NearestThousandth(thousandths, tenthousandths) ==
    (thousandths * 10 - tenthousandths) \in -5..5

\* The returned segment carries the very values of the model's segment.
AsProduced(seg, segment) ==
    /\ seg.start * 10 = segment.start
    /\ seg.end * 10 = segment.end
    /\ seg.text = segment.text
    /\ seg.confidence # None /\ ValueOf(seg.confidence) * 10 = segment.avg_logprob

\* The returned segment carries the values transcribe_audio records for the
\* model's segment: times rounded to 0.01 s, text stripped, confidence rounded
\* to 0.001.
AsRecorded(seg, segment) ==
    /\ NearestHundredth(seg.start, segment.start)
    /\ NearestHundredth(seg.end, segment.end)
    /\ seg.text = strip(segment.text)
    /\ seg.confidence # None
    /\ NearestThousandth(ValueOf(seg.confidence), segment.avg_logprob)

Marked(seg) ==
    "filtered_as_hallucination" \in DOMAIN seg /\ seg.filtered_as_hallucination = TRUE

\* The transcript and flag fields of a result r follow the verdict.
FieldsFollowVerdict(r) ==
    IF Verdict[1]
    THEN /\ r.transcript = <<>>
         /\ r.hallucination_filtered = TRUE
         /\ "hallucination_reason" \in DOMAIN r
         /\ Len(r.segments) = Len(Produced)
         /\ \A i \in 1..Len(r.segments) : Marked(r.segments[i])
    ELSE /\ r.transcript = ClassifiedTranscript
         /\ r.hallucination_filtered = FALSE
         /\ "hallucination_reason" \notin DOMAIN r

\* C5 as stated: in every result built by transcribe_audio, a flagged transcript
\* is returned empty with hallucination_filtered true, a reason and every
\* segment marked, and the segments have the length, order, start, end, text
\* and confidence values the model produced; an unflagged transcript is
\* returned unchanged with hallucination_filtered false and no reason.
C5_SegmentsAsProduced ==
    result # None =>
        /\ FieldsFollowVerdict(ValueOf(result))
        /\ Verdict[1] =>
            \A i \in 1..Len(Produced) : AsProduced(ValueOf(result).segments[i], Produced[i])

\* C5 amended: as above, but the segments of a flagged result carry, in the
\* model's order, the values transcribe_audio records for every segment: start
\* and end rounded to two decimals, text stripped of surrounding whitespace,
\* confidence rounded to three decimals.
C5_SegmentsAsRecorded ==
    result # None =>
        /\ FieldsFollowVerdict(ValueOf(result))
        /\ Verdict[1] =>
            \A i \in 1..Len(Produced) : AsRecorded(ValueOf(result).segments[i], Produced[i])

\* A flagged result with a segment has been returned to the client.
C5_Witness ==
    /\ pc = "responded"
    /\ result # None
    /\ Verdict[1]
    /\ ValueOf(result).hallucination_filtered = TRUE
    /\ Len(ValueOf(result).segments) > 0
    /\ response # None /\ ValueOf(response).status_code = 200

\* C6: when the cache lookup returns an entry, the request returns that entry
\* at once: the response is the entry and the lookup is the only call the
\* handler made (no preprocess_audio, no transcribe_audio, no cache.set).
C6_HitReturnsAtOnce ==
    cached_result # None =>
        /\ pc = "responded"
        /\ response = Some(OK(ValueOf(cached_result)))
        /\ Len(calls) = 1 /\ calls[1].fn = "cache.get"
        /\ audio_data = None /\ result = None

\* A stored entry has been found and returned.
C6_Witness ==
    /\ pc = "responded"
    /\ cached_result # None
    /\ cached = TRUE
    /\ ValueOf(response).status_code = 200
    /\ ValueOf(response).body.cache_hit = TRUE
    /\ calls = << [fn |-> "cache.get", failed |-> FALSE] >>

\* The request passed the extension and size checks and missed the cache.
ReachedPipeline ==
    Len(calls) >= 2 /\ calls[1].fn = "cache.get" /\ calls[2].fn = "preprocess_audio"

\* C7: for a request that passed the checks and missed the cache, a failure of
\* preprocess_audio is answered with 400, a failure of the model (not loadable,
\* transcription fault) with 500, and a 200 is only sent when no call failed.
C7_FailuresAreErrors ==
    (pc = "responded" /\ ReachedPipeline) =>
        /\ failure = "preprocess_audio" => ValueOf(response).status_code = 400
        /\ failure \in {"load", "transcribe"} => ValueOf(response).status_code = 500
        /\ ValueOf(response).status_code = 200 =>
            /\ failure = "none"
            /\ \A i \in 2..Len(calls) :
                  calls[i].fn \in {"preprocess_audio", "transcribe_audio"} => ~calls[i].failed

\* Bytes no decoder accepts were answered with 400.
C7_Witness ==
    /\ pc = "responded"
    /\ ReachedPipeline
    /\ ~decodable(ValueOf(upload).bytes)
    /\ failure = "preprocess_audio"
    /\ ValueOf(response).status_code = 400

\* The outcome class and the transcription content of a response.
Outcome(resp) ==
    IF resp.status_code = 200
    THEN [status_code |-> 200,
          transcript |-> resp.body.transcript,
          segments |-> resp.body.segments,
          language |-> resp.body.language,
          hallucination_filtered |-> resp.body.hallucination_filtered,
          hallucination_reason |->
              IF "hallucination_reason" \in DOMAIN resp.body
              THEN Some(resp.body.hallucination_reason) ELSE None]
    ELSE [status_code |-> resp.status_code]

\* What the request path computes with no cache in it, for upload u that passed
\* the checks, when the model fails as in failed ("none", "load", "transcribe").
Uncached(u, failed) ==
    LET conditioned == preprocess_audio(u.bytes)
        built == build_result(whisper_segments(u.bytes), whisper_info(u.bytes),
                              conditioned_duration(u.bytes))
    IN  IF conditioned.exc # "none" THEN [status_code |-> 400]
        ELSE IF failed # "none" THEN [status_code |-> 500]
        ELSE Outcome(OK(built))

SomeCacheCallFailed ==
    \E i \in 1..Len(calls) : calls[i].fn \in {"cache.get", "cache.set"} /\ calls[i].failed

\* C8: a failing cache lookup or cache store does not change the response: its
\* outcome class and its transcript, segments, language and hallucination
\* fields are those of the same request with the cache disabled.
C8_CacheFailureIsInvisible ==
    (pc = "responded" /\ calls # <<>> /\ (cache.kind = "NoOpCache" \/ SomeCacheCallFailed)) =>
        Outcome(ValueOf(response)) = Uncached(ValueOf(upload), failure)

\* A connected RedisCache whose store failed on the lookup and on the store,
\* and the request was answered with a transcription.
C8_Witness ==
    /\ pc = "responded"
    /\ cache.kind = "RedisCache"
    /\ cache._client # None
    /\ Len(calls) = 4
    /\ calls[1].failed
    /\ calls[4].failed
    /\ ValueOf(response).status_code = 200
    /\ ValueOf(response).body.transcript # <<>>

(***************************************************************************)
(* Claims about the cache: recovery, round trip, keys, clear               *)
(***************************************************************************)
\* A RedisCache whose construction reached the store.
ConnectedAtConstruction ==
    cache.kind = "RedisCache" /\ reachable_at_init = Some(TRUE)

\* C11: on a RedisCache that connected at construction, a get, set or clear
\* that fails with a transport error does not disable the cache: the client is
\* kept, every later call contacts the store again, a set made while the
\* store is reachable returns True and a get of bytes whose entry the store
\* holds returns an entry.
C11_FailureDoesNotDisable ==
    [][ ConnectedAtConstruction =>
          /\ cache'._client # None
          /\ \A b \in TestAudio, r \in TestResults :
                (last_call'.op = "set" /\ CallSet(b, r) /\ redis_up) =>
                    /\ last_call'.ok
                    /\ transcription_key(_compute_hash(b)) \in DOMAIN store'
          /\ \A b \in TestAudio :
                (last_call'.op = "get" /\ CallGet(b) /\ redis_up /\ b \in DOMAIN stored) =>
                    /\ last_call'.entry # None
                    /\ ValueOf(last_call'.entry).cache_hit = TRUE ]_vars

\* A call failed, a later set of some bytes returned True, and the get of the
\* same bytes that followed returned the entry.
C11_Witness ==
    /\ ConnectedAtConstruction
    /\ last_call.op = "get"
    /\ last_call.after_fault
    /\ last_call.recovered # None
    /\ last_call.arg = last_call.recovered
    /\ last_call.entry # None

\* An active cache and a store that answers.
ActiveAndReachable ==
    cache.kind = "RedisCache" /\ cache._client # None /\ redis_up

CacheMetadata == {"cache_hit", "cached_at", "cache_hit_at"}

\* entry is r in every field of r, plus the cache metadata of a retrieval.
RoundTripOf(entry, r) ==
    /\ \A k \in DOMAIN r \ CacheMetadata : k \in DOMAIN entry /\ entry[k] = r[k]
    /\ DOMAIN entry \ DOMAIN r \subseteq CacheMetadata
    /\ CacheMetadata \subseteq DOMAIN entry
    /\ entry.cache_hit = TRUE

\* C12: on an active cache with a reachable store, a get(b) made while the
\* store still holds what set(b, r) wrote (no expiry, no clear since) returns
\* an entry equal to r in every field of r, with only the cache metadata added:
\* cache_hit = true, cached_at and cache_hit_at.
C12_RoundTrip ==
    [][ ActiveAndReachable =>
          \A b \in TestAudio :
              (last_call'.op = "get" /\ CallGet(b) /\ b \in DOMAIN stored) =>
                  /\ last_call'.entry # None
                  /\ RoundTripOf(ValueOf(last_call'.entry), stored[b].value) ]_vars

\* A result with segments was stored and read back.
C12_Witness ==
    /\ ActiveAndReachable
    /\ last_call.op = "get"
    /\ last_call.entry # None
    /\ ValueOf(last_call.arg) \in DOMAIN stored
    /\ "segments" \in DOMAIN stored[ValueOf(last_call.arg)].value
    /\ RoundTripOf(ValueOf(last_call.entry), stored[ValueOf(last_call.arg)].value)

\* The key under which the cache keeps the entry of an upload.
KeyOf(u) == transcription_key(_compute_hash(u.bytes))

\* C13: the cache key is a function of the raw audio bytes only.  Uploads with
\* identical bytes have the same key whatever their file name, uploads with
\* different bytes have different keys; so a lookup on an active cache with a
\* reachable store returns the entry a request with the same bytes stored, if
\* the store still holds it, and a lookup never returns anything else.
C13_KeyIsFunctionOfBytes ==
    [][ /\ \A u1 \in Uploads, u2 \in Uploads : (KeyOf(u1) = KeyOf(u2)) <=> (u1.bytes = u2.bytes)
        /\ Lookup =>
            LET b == ValueOf(upload).bytes
            IN  /\ (ActiveAndReachable /\ b \in DOMAIN stored) => cached_result' # None
                /\ cached_result' # None =>
                      /\ b \in DOMAIN stored
                      /\ RoundTripOf(ValueOf(cached_result'), stored[b].value) ]_vars

\* A request was served the entry that a request with the same bytes and
\* another file name had stored.
C13_Witness ==
    /\ pc = "responded"
    /\ cached_result # None
    /\ ValueOf(upload).bytes \in DOMAIN stored
    /\ stored[ValueOf(upload).bytes].by # Some(ValueOf(upload).filename)
    /\ RoundTripOf(ValueOf(cached_result), stored[ValueOf(upload).bytes].value)

\* The keys of the transcription namespace in a store content.
NamespaceKeys(content) == { k \in DOMAIN content : k[1] = "transcription:" }

\* C14: on an active cache with a reachable store, clear() deletes every key
\* of the transcription namespace (and no other key) and returns how many it
\* deleted; a get made after it, with no set in between, returns None for
\* every byte string.
C14_ClearDeletesNamespace ==
    [][ /\ (ActiveAndReachable /\ CallClear) =>
              /\ last_call'.deleted = Cardinality(NamespaceKeys(store))
              /\ NamespaceKeys(store') = {}
              /\ DOMAIN store' = DOMAIN store \ NamespaceKeys(store)
              /\ DOMAIN stored' = {}
        /\ \A b \in TestAudio :
              (CallGet(b) /\ b \notin DOMAIN stored) => last_call'.entry = None ]_vars

\* Two entries had been stored, clear deleted both and left the other
\* application's key alone.
C14_Witness ==
    /\ ActiveAndReachable
    /\ last_call.op = "clear"
    /\ last_call.deleted = 2
    /\ DOMAIN store = {ForeignKey}

(***************************************************************************)
(* preprocess_audio (transcribe.py:395-667)                                *)
(***************************************************************************)
Conditioned == p_pc \in {"returned", "raised"}

\* the duration of the clip as decoded, against the configured bounds
DecodedWithinBounds(clip) ==
    /\ clip.decoder # "none"
    /\ clip.frames * 1000 >= MIN_AUDIO_DURATION * clip.sample_rate
    /\ clip.frames * 1000 <= MAX_AUDIO_DURATION * clip.sample_rate

MonoAtTargetRate(frames) == Clip("soundfile", 1, frames, TARGET_SR)

\* C15: preprocess_audio raises only for a file that cannot be decoded or whose
\* decoded duration is outside [MIN_AUDIO_DURATION, MAX_AUDIO_DURATION]; a
\* decodable clip within the bounds is returned whatever the stages did.
C15_FailsOnlyOnDecodeOrBounds ==
    p_pc = "raised" => ~DecodedWithinBounds(p_clip)

\* C16: at 16 kHz a clip of exactly 1600 samples is returned for every outcome
\* of the voice-activity stage, and a clip of 1599 samples raises "too short".
C16_MinimumBoundary ==
    /\ (Conditioned /\ p_clip = MonoAtTargetRate(1600)) => p_pc = "returned"
    /\ (Conditioned /\ p_clip = MonoAtTargetRate(1599)) =>
          (p_pc = "raised" /\ p_error = "Audio too short")

\* C17: at 16 kHz a clip of exactly 480000 samples is returned, and every
\* longer clip raises "too long", for every outcome of the voice-activity
\* stage.
C17_MaximumBoundary ==
    /\ (Conditioned /\ p_clip = MonoAtTargetRate(480000)) => p_pc = "returned"
    /\ (Conditioned /\ p_clip.decoder # "none" /\ p_clip.channels = 1
                    /\ p_clip.sample_rate = TARGET_SR /\ p_clip.frames > 480000) =>
          (p_pc = "raised" /\ p_error = "Audio too long")

C19_ReturnedSignalIsMono ==
    (p_pc = "returned" /\ p_clip.channels >= 2) => Len(p_shape) = 1

(***************************************************************************)
(* _normalize_text (transcribe.py:134-141)                                 *)
(***************************************************************************)
\* letters and digits; every other character that is not whitespace counts
\* as punctuation (or a symbol)
IsAlphanumeric(c) ==
    c \in Range(LowerLetters) \cup Range(UpperLetters) \cup Range(DigitChars)
            \cup UnicodeLetters

IsPunctuation(c) == ~IsAlphanumeric(c) /\ ~IsSpace(c)

Idempotent(text) == _normalize_text(_normalize_text(text)) = _normalize_text(text)

Lowercase(text) == lower(text) = text

Trimmed(text) == strip(text) = text

NoWhitespaceRun(text) ==
    \A i \in 1..Len(text) - 1 : ~(IsSpace(text[i]) /\ IsSpace(text[i+1]))

\* C20: _normalize_text is idempotent, and its output is lowercase, has no
\* punctuation other than apostrophes, no leading or trailing whitespace and
\* no run of two or more whitespace characters.
C20_NormalizedForm ==
    h_pc = "returned" =>
    LET normalized == _normalize_text(h_transcript)
    IN  /\ Idempotent(h_transcript)
        /\ Lowercase(normalized)
        /\ \A i \in 1..Len(normalized) : IsPunctuation(normalized[i]) => normalized[i] = "'"
        /\ Trimmed(normalized)
        /\ NoWhitespaceRun(normalized)

(***************************************************************************)
(* The model handle (transcribe.py:227-264)                                *)
(***************************************************************************)
\* C21: across startup preload, /health and /transcribe, the model is
\* constructed at most once: once get_whisper_model has returned an instance
\* the handle keeps holding that same instance, and every later call
\* returns it.
C21_ModelLoadedOnce ==
    [][ /\ constructed' <= 1
        /\ _whisper_model # None =>
              /\ _whisper_model' = _whisper_model
              /\ constructed' = constructed
              /\ \A model_loads \in BOOLEAN :
                    get_whisper_model(model_loads) = <<FALSE, _whisper_model>> ]_vars

\* the model was loaded by one call, and transcribe_audio of a later request
\* got it from get_whisper_model
C21_Witness ==
    /\ _whisper_model = Some(1)
    /\ constructed = 1
    /\ pc = "store"
    /\ Len(calls) >= 1

(***************************************************************************)
(* The best-effort stages of preprocess_audio                              *)
(***************************************************************************)
\* this step is a best-effort stage that raised and was skipped
StageFailed ==
    \/ p_skipped' > p_skipped
    \/ p_pc = "vad" /\ p_vad' = "failed"

\* C22: a best-effort stage that fails does not abort the call, and hands on
\* exactly the signal and the sample rate it received.
C22_FailedStageForwardsItsInput ==
    [][ StageFailed =>
            /\ p_pc' # "raised"
            /\ p_shape' = p_shape
            /\ p_peak' = p_peak
            /\ p_sample_rate' = p_sample_rate ]_vars

\* the signal as the voice-activity stage frames it: at 16 kHz
EnteredVad == to_target_rate(p_shape, p_sample_rate)

C28_AllVoicedKeepsEveryCompleteFrame ==
    [][ ( /\ p_pc = "vad"
          /\ p_vad' = "voiced"
          /\ len(p_shape') = total_frames(len(EnteredVad), 480) * 480 ) =>
            len(p_shape') = (len(EnteredVad) \div 480) * 480 ]_vars

(***************************************************************************)
(* What the service keeps in the cache                                     *)
(***************************************************************************)
Flagged(entry) ==
    "hallucination_filtered" \in DOMAIN entry /\ entry.hallucination_filtered = TRUE

Suppressed(entry) == Flagged(entry) => entry.transcript = <<>>

\* the entries of the transcription namespace that decode
DecodedEntries(content) ==
    { json_loads(content[k]).ret :
        k \in { n \in NamespaceKeys(content) : ~json_loads(content[n]).exc } }

IsHit == cached = TRUE /\ pc = "responded" /\ response # None

\* C24: every entry the cache holds has an empty transcript if it is marked
\* hallucination_filtered, so no cache hit returns a transcript the classifier
\* flagged.
C24_CachedEntriesAreSuppressed ==
    /\ \A entry \in DecodedEntries(store) : Suppressed(entry)
    /\ IsHit => Suppressed(ValueOf(response).body)

\* a flagged result is in the store and a later request was served from it
C24_Witness ==
    /\ IsHit
    /\ Flagged(ValueOf(response).body)
    /\ ValueOf(response).body.transcript = <<>>
    /\ \E entry \in DecodedEntries(store) : Flagged(entry)

IsError(resp) == resp # None /\ ValueOf(resp).status_code # 200

\* a step of transcribe() other than its call of cache.set
HandlerStepBesidesSet == pc \notin {"boot", "idle", "store"} /\ pc' # pc

\* C25: a /transcribe request that ends in an error leaves the cache as it
\* was: no step of the handler but cache.set changes the store, cache.set is
\* called only after transcribe_audio has returned a result, and a request
\* that ends in an error has not called it.
C25_ErrorLeavesCacheUnchanged ==
    [][ /\ HandlerStepBesidesSet => store' = store
        /\ pc = "store" =>
              /\ result # None
              /\ calls[Len(calls)] = [fn |-> "transcribe_audio", failed |-> FALSE]
        /\ (pc # "responded" /\ pc' = "responded" /\ IsError(response')) =>
              /\ store' = store
              /\ \A i \in 1..Len(calls') : calls'[i].fn # "cache.set" ]_vars

\* a request whose model call failed has been answered with an error while
\* the store holds an entry of an earlier request
C25_Witness ==
    /\ pc = "responded"
    /\ IsError(response)
    /\ failure = "transcribe"
    /\ NamespaceKeys(store) # {}
    /\ ActiveAndReachable

(***************************************************************************)
(* The matcher and its lists (transcribe.py:37-131, 168-177)               *)
(***************************************************************************)
ContainsKnownSubstring(text) ==
    \E i \in 1..Len(HALLUCINATION_SUBSTRINGS) : IsSubstring(HALLUCINATION_SUBSTRINGS[i], text)

\* C26: every entry of HALLUCINATION_PHRASES, given as the transcript with no
\* segments, is flagged at every duration, and every transcript that contains
\* an entry of HALLUCINATION_SUBSTRINGS verbatim is flagged.
C26_EveryEntryIsMatched ==
    (h_pc = "returned" /\ h_segments = <<>>) =>
        /\ h_transcript \in HALLUCINATION_PHRASES => h_result[1] = TRUE
        /\ ContainsKnownSubstring(h_transcript) => h_result[1] = TRUE

\* C27: the verdict depends on the transcript only through its normalized
\* form: transcripts with equal _normalize_text, given the same segments and
\* duration, get the same boolean.  Stated for a transcript and its own
\* normalized form, which _normalize_text maps to itself.
C27_VerdictFollowsNormalizedForm ==
    h_pc = "returned" =>
        is_hallucination(_normalize_text(h_transcript), h_segments, h_duration)[1]
            = h_result[1]

(***************************************************************************)
(* Hit and miss responses (main.py:228-264)                                *)
(***************************************************************************)
TimingFields == {"processing_time", "real_time_factor", "total_processing_time"}

\* the body the request that stored the entry for these bytes was answered with
MissResponse(audio_bytes) == add_processing_metadata(stored[audio_bytes].value)

\* C29: for the same bytes the response to a cache hit has every field the
\* response to the original miss had, with equal values except for timing,
\* and adds cache metadata only.
C29_HitHasEveryFieldOfMiss ==
    (IsHit /\ ValueOf(upload).bytes \in DOMAIN stored) =>
        LET hit == ValueOf(response).body
            miss == MissResponse(ValueOf(upload).bytes)
        IN  /\ DOMAIN miss \subseteq DOMAIN hit
            /\ \A k \in (DOMAIN miss \cap DOMAIN hit) \ TimingFields : hit[k] = miss[k]
            /\ DOMAIN hit \ DOMAIN miss \subseteq CacheMetadata

(***************************************************************************)
(* Request accounting (main.py:196-200, 285-288)                           *)
(***************************************************************************)
\* the step in which a request that passed the API-key check leaves the handler
LeavesHandler == pc = "responded" /\ pc' = "idle" /\ status # "unset"

\* the label pairs whose counter the step changes
Recorded == { label \in Labels :
                transcription_requests_total'[label] # transcription_requests_total[label] }

\* C30: a request that passed the API-key check is counted exactly once in
\* transcription_requests_total and leaves active_requests at its pre-request
\* value (0, one request being handled at a time); the recorded status label
\* is "success" exactly when the request returns a result, be it a cache hit
\* or freshly computed.
C30_RequestAccounting ==
    [][ LeavesHandler =>
            /\ total(transcription_requests_total') = total(transcription_requests_total) + 1
            /\ active_requests' = 0
            /\ \A label \in Recorded :
                   (label.status = "success") <=> ~IsError(response) ]_vars
=============================================================================
